---------------------------- MODULE Spec2Model ----------------------------
(***************************************************************************)
(* Verification model of the analytics and ingestion-parsing engine of the *)
(* personal finance tracker: the CSV ingestion parser (csv-import), the    *)
(* Pareto analyzer (analysis) and the statistics engine (statistics).     *)
(*                                                                         *)
(* Numbers.  Amounts handed to the analytics functions are integers        *)
(* (think of cents).  Quotients the code computes in floating point        *)
(* (percentages, averages, medians, outlier bounds) are kept as exact      *)
(* rationals [num, den] and compared by cross-multiplication.              *)
(* Strings the code inspects character by character (CSV cells) are        *)
(* sequences of one-character strings.                                     *)
(***************************************************************************)
EXTENDS Integers, Sequences, FiniteSets, TLC

VARIABLES
    \* ---- CSV ingestion parser (parseCSVToTransactions) ----
    rows,          \* the batch: a sequence of rows, each a sequence of cells
    mapping,       \* the ColumnMapping
    envSlashDates, \* whether the environment's Date parser reads d/d/dddd
    index,         \* number of rows the forEach has visited
    valid,         \* ParseResult.valid
    invalid,       \* ParseResult.invalid
    \* ---- CSV import screen (useCSVImport, CSVImport, TransactionsPage) ----
    state,         \* the hook's CSVImportState
    parses,        \* the files Papa.parse is still reading
    imports,       \* the confirmImport calls that have not returned yet
    requests,      \* the bodies of the import requests sent so far
    showImport,    \* TransactionsPage: whether CSVImport is shown
    onCompleteCalls, \* how often the onComplete callback was invoked
    importsSucceeded, \* how many imports confirmed on the screen got an OK
    \* ---- analytics (analysis.ts, statistics.ts) ----
    transactions,  \* the Transaction[] argument
    categories,    \* the Category[] argument
    args,          \* the function's further arguments (threshold, period)
    call,          \* the function still to be applied, or "done"
    result         \* what the function returned, NoResult before the call

hookVars == <<state, parses, imports, requests, showImport, onCompleteCalls,
              importsSucceeded>>
csvVars == <<rows, mapping, envSlashDates, index, valid, invalid, hookVars>>
anaVars == <<transactions, categories, args, call, result>>
vars == <<rows, mapping, envSlashDates, index, valid, invalid,
          state, parses, imports, requests, showImport, onCompleteCalls,
          importsSucceeded,
          transactions, categories, args, call, result>>

----------------------------------------------------------------------------
(* Generic helpers *)

Abs(x) == IF x < 0 THEN -x ELSE x

Max2(a, b) == IF a >= b THEN a ELSE b

Range(s) == {s[i] : i \in 1..Len(s)}

RECURSIVE SeqsUpTo(_, _)
\* All sequences over S of length at most n.
SeqsUpTo(S, n) ==
    IF n = 0 THEN {<<>>}
    ELSE LET shorter == SeqsUpTo(S, n - 1)
         IN shorter \cup {Append(s, x) : s \in {t \in shorter : Len(t) = n - 1}, x \in S}

RECURSIVE Pow10(_)
Pow10(n) == IF n = 0 THEN 1 ELSE 10 * Pow10(n - 1)

\* Exact rationals with positive denominator.
Rat(n, d) == [num |-> n, den |-> d]
REq(x, y) == x.num * y.den = y.num * x.den
RLe(x, y) == x.num * y.den <= y.num * x.den
RLt(x, y) == x.num * y.den < y.num * x.den
RInt(n) == Rat(n, 1)
\* Sums of rationals, used to state the claims.
RAdd(x, y) == Rat(x.num * y.den + y.num * x.den, x.den * y.den)

RECURSIVE RSum(_)
RSum(s) == IF s = <<>> THEN RInt(0) ELSE RAdd(Head(s), RSum(Tail(s)))

----------------------------------------------------------------------------
(* Strings as character sequences *)

Digits == {"0", "1", "2", "3", "4", "5", "6", "7", "8", "9"}

DigitVal(c) ==
    CASE c = "0" -> 0 [] c = "1" -> 1 [] c = "2" -> 2 [] c = "3" -> 3
      [] c = "4" -> 4 [] c = "5" -> 5 [] c = "6" -> 6 [] c = "7" -> 7
      [] c = "8" -> 8 [] c = "9" -> 9

IsSpace(c) == c = " "

RECURSIVE TrimStart(_)
TrimStart(s) == IF s # <<>> /\ IsSpace(Head(s)) THEN TrimStart(Tail(s)) ELSE s

RECURSIVE TrimEnd(_)
TrimEnd(s) ==
    IF s # <<>> /\ IsSpace(s[Len(s)]) THEN TrimEnd(SubSeq(s, 1, Len(s) - 1)) ELSE s

\* String.prototype.trim
Trim(s) == TrimEnd(TrimStart(s))

RECURSIVE DigitsEnd(_, _)
\* First position at or after i that does not hold a digit.
DigitsEnd(s, i) ==
    IF i <= Len(s) /\ s[i] \in Digits THEN DigitsEnd(s, i + 1) ELSE i

RECURSIVE DigitsValue(_, _, _)
\* The decimal value of s[i..j-1], all digits (0 when empty).
DigitsValue(s, i, j) ==
    IF j <= i THEN 0 ELSE 10 * DigitsValue(s, i, j - 1) + DigitVal(s[j - 1])

----------------------------------------------------------------------------
(* Dates: a Date is [year, month (0-based), day]; NoDate is the Invalid Date *)

NoDate == [year |-> 0, month |-> 0, day |-> 0]

IsLeap(y) == (y % 4 = 0 /\ y % 100 # 0) \/ y % 400 = 0

\* Days of month m (0-based) of year y.
DaysInMonth(y, m) ==
    IF m = 1 THEN (IF IsLeap(y) THEN 29 ELSE 28)
    ELSE IF m \in {3, 5, 8, 10} THEN 30 ELSE 31

RECURSIVE RollDays(_, _, _)
\* Carries a day number outside its month into the neighbouring months.
RollDays(y, m, d) ==
    IF d > DaysInMonth(y, m)
    THEN (IF m = 11 THEN RollDays(y + 1, 0, d - DaysInMonth(y, m))
          ELSE RollDays(y, m + 1, d - DaysInMonth(y, m)))
    ELSE IF d < 1
    THEN (IF m = 0 THEN RollDays(y - 1, 11, d + DaysInMonth(y - 1, 11))
          ELSE RollDays(y, m - 1, d + DaysInMonth(y, m - 1)))
    ELSE [year |-> y, month |-> m, day |-> d]

\* new Date(year, monthIndex, day): out-of-range fields roll over.
NewDateYMD(y, m, d) == RollDays(y + (m \div 12), m % 12, d)

\* /^\d{4}-\d{2}-\d{2}$/ : the ISO date-only form
IsISODate(s) ==
    /\ Len(s) = 10
    /\ s[5] = "-" /\ s[8] = "-"
    /\ \A i \in {1, 2, 3, 4, 6, 7, 9, 10} : s[i] \in Digits

\* /^(\d{1,2})\/(\d{1,2})\/(\d{4})$/ ; the three groups when it matches
SlashMatch(s) ==
    LET p1 == DigitsEnd(s, 1)
        p2 == DigitsEnd(s, p1 + 1)
        p3 == DigitsEnd(s, p2 + 1)
        ok == /\ p1 - 1 \in {1, 2}
              /\ p1 <= Len(s) /\ s[p1] = "/"
              /\ p2 - (p1 + 1) \in {1, 2}
              /\ p2 <= Len(s) /\ s[p2] = "/"
              /\ p3 - (p2 + 1) = 4
              /\ p3 = Len(s) + 1
    IN IF ok
       THEN [match |-> TRUE,
             g1 |-> DigitsValue(s, 1, p1),
             g2 |-> DigitsValue(s, p1 + 1, p2),
             g3 |-> DigitsValue(s, p2 + 1, p3)]
       ELSE [match |-> FALSE, g1 |-> 0, g2 |-> 0, g3 |-> 0]

\* new Date(string): the environment's parser.  The ISO date-only form is
\* read by every environment; a d/d/dddd string is read as month/day/year by
\* the environments that accept it (slash = TRUE) and rejected by the others;
\* any other string of the batches considered here is an Invalid Date.
NewDateString(s, slash) ==
    IF IsISODate(s)
    THEN LET y == DigitsValue(s, 1, 5)
             m == DigitsValue(s, 6, 8)
             d == DigitsValue(s, 9, 11)
         IN IF m \in 1..12 /\ d \in 1..31 THEN NewDateYMD(y, m - 1, d) ELSE NoDate
    ELSE LET sm == SlashMatch(s)
         IN IF slash /\ sm.match /\ sm.g1 \in 1..12 /\ sm.g2 \in 1..31
            THEN NewDateYMD(sm.g3, sm.g1 - 1, sm.g2)
            ELSE NoDate

\* parseDate
parseDate(dateString, slash) ==
    LET trimmed == Trim(dateString)
        date == NewDateString(trimmed, slash)
        sm == SlashMatch(trimmed)
    IN IF date # NoDate THEN date
       ELSE IF sm.match THEN NewDateYMD(sm.g3, sm.g2 - 1, sm.g1)
       ELSE NoDate

----------------------------------------------------------------------------
(* Numbers read from strings *)

NaN == [nan |-> TRUE, num |-> 0, den |-> 1]

\* parseFloat: leading white space is skipped, then the longest prefix that
\* is a signed decimal literal is read and whatever follows it is ignored;
\* NaN when that prefix holds no digit.  (Exponents and "Infinity" do not
\* occur in the cells considered.)
parseFloat(s) ==
    LET t == TrimStart(s)
        signed == t # <<>> /\ t[1] \in {"+", "-"}
        i1 == IF signed THEN 2 ELSE 1
        i2 == DigitsEnd(t, i1)
        dot == i2 <= Len(t) /\ t[i2] = "."
        i3 == IF dot THEN DigitsEnd(t, i2 + 1) ELSE i2
        nInt == i2 - i1
        nFrac == IF dot THEN i3 - (i2 + 1) ELSE 0
        mag == DigitsValue(t, i1, i2) * Pow10(nFrac)
                 + (IF dot THEN DigitsValue(t, i2 + 1, i3) ELSE 0)
    IN IF nInt + nFrac = 0 THEN NaN
       ELSE [nan |-> FALSE,
             num |-> IF signed /\ t[1] = "-" THEN -mag ELSE mag,
             den |-> Pow10(nFrac)]

----------------------------------------------------------------------------
(* CSV ingestion parser *)

ErrMap == "Could not map columns (row too short)"
ErrDate == "Invalid date format"
ErrDescription == "Description cannot be empty"
ErrAmount == "Invalid amount format"

NoMapped == [mapped |-> FALSE, date |-> <<>>, description |-> <<>>, amount |-> <<>>]

\* mapColumnsToTransaction: NoMapped is the null result
mapColumnsToTransaction(row, m) ==
    LET maxIndex == Max2(m.dateColumn, Max2(m.descriptionColumn, m.amountColumn))
    IN IF Len(row) <= maxIndex
       THEN NoMapped
       ELSE [mapped |-> TRUE,
             date |-> row[m.dateColumn + 1],
             description |-> row[m.descriptionColumn + 1],
             amount |-> row[m.amountColumn + 1]]

NoData == [date |-> NoDate, description |-> <<>>, amount |-> NaN]

\* validateTransactionRow with the amount examined before the description.
validateTransactionRow_AmountFirst(mapped, slash) ==
    LET date == parseDate(mapped.date, slash)
        description == Trim(mapped.description)
        amount == parseFloat(mapped.amount)
    IN IF date = NoDate
       THEN [success |-> FALSE, data |-> NoData, error |-> ErrDate]
       ELSE IF amount.nan
       THEN [success |-> FALSE, data |-> NoData, error |-> ErrAmount]
       ELSE IF Len(description) = 0
       THEN [success |-> FALSE, data |-> NoData, error |-> ErrDescription]
       ELSE [success |-> TRUE,
             data |-> [date |-> date, description |-> description, amount |-> amount],
             error |-> ""]

\* validateTransactionRow
validateTransactionRow(mapped, slash) ==
    LET date == parseDate(mapped.date, slash)
        description == Trim(mapped.description)
        amount == parseFloat(mapped.amount)
    IN IF date = NoDate
       THEN [success |-> FALSE, data |-> NoData, error |-> ErrDate]
       ELSE IF Len(description) = 0
       THEN [success |-> FALSE, data |-> NoData, error |-> ErrDescription]
       ELSE IF amount.nan
       THEN [success |-> FALSE, data |-> NoData, error |-> ErrAmount]
       ELSE [success |-> TRUE,
             data |-> [date |-> date, description |-> description, amount |-> amount],
             error |-> ""]

InvalidRow(i, row, error) == [rowIndex |-> i, row |-> row, error |-> error]

\* rowCallback refusing every row that comes after a refused one.
rowCallback_StopAtInvalid(acc, row, i, m, slash) ==
    LET mapped == mapColumnsToTransaction(row, m)
        validation == validateTransactionRow(mapped, slash)
    IN IF ~mapped.mapped
       THEN [acc EXCEPT !.invalid = Append(@, InvalidRow(i, row, ErrMap))]
       ELSE IF validation.success /\ acc.invalid = <<>>
       THEN [acc EXCEPT !.valid = Append(@, validation.data)]
       ELSE [acc EXCEPT !.invalid =
                Append(@, InvalidRow(i, row, IF validation.success THEN "Validation failed"
                                             ELSE validation.error))]

\* rowCallback with the push of a row that fails validation left out.
rowCallback_DropInvalid(acc, row, i, m, slash) ==
    LET mapped == mapColumnsToTransaction(row, m)
        validation == validateTransactionRow(mapped, slash)
    IN IF ~mapped.mapped
       THEN [acc EXCEPT !.invalid = Append(@, InvalidRow(i, row, ErrMap))]
       ELSE IF validation.success
       THEN [acc EXCEPT !.valid = Append(@, validation.data)]
       ELSE acc

\* The callback parseCSVToTransactions hands to rows.forEach, applied to the
\* row at 0-based position i; acc is the pair of arrays built so far.
rowCallback(acc, row, i, m, slash) ==
    LET mapped == mapColumnsToTransaction(row, m)
        validation == validateTransactionRow(mapped, slash)
    IN IF ~mapped.mapped
       THEN [acc EXCEPT !.invalid = Append(@, InvalidRow(i, row, ErrMap))]
       ELSE IF validation.success
       THEN [acc EXCEPT !.valid = Append(@, validation.data)]
       ELSE [acc EXCEPT !.invalid = Append(@, InvalidRow(i, row, validation.error))]

\* Sample cells
CellISO15 == <<"2", "0", "2", "5", "-", "0", "1", "-", "1", "5">>
CellISO17 == <<"2", "0", "2", "5", "-", "0", "1", "-", "1", "7">>
CellBadDate == <<"b", "a", "d">>
CellSlash15 == <<"1", "5", "/", "0", "1", "/", "2", "0", "2", "5">>
CellSlash05 == <<"0", "5", "/", "0", "1", "/", "2", "0", "2", "5">>
CellGroceries == <<"F", "o", "o", "d">>
CellPadded == <<" ", "B", "u", "s", " ">>
CellEmpty == <<>>
CellBlank == <<" ", " ">>
CellAmount == <<"4", "5", ".", "5", "0">>
CellNegative == <<"-", "1", "2", ".", "5">>
CellCurrency == <<"1", "2", "a", "b", "c">>
CellLetters == <<"a", "b", "c">>

\* The rows batches are made of: valid rows, rows failing each check, rows
\* failing several checks at once, and rows too short for the mapping.
SampleRows ==
    { <<CellISO15, CellGroceries, CellAmount>>,
      <<CellBadDate, CellGroceries, CellAmount>>,
      <<CellISO17, CellEmpty, CellAmount>>,
      <<CellISO17, CellGroceries, CellLetters>>,
      <<CellSlash15, CellPadded, CellNegative>>,
      <<CellSlash05, CellGroceries, CellCurrency>>,
      <<CellBadDate, CellBlank, CellLetters>>,
      <<CellISO17, CellBlank, CellLetters>>,
      <<CellISO15, CellGroceries, CellAmount, CellISO17>>,
      <<CellGroceries>>,
      <<>> }

\* Column mappings: the usual one, one with description and amount swapped,
\* and one that takes the date from a fourth column.
SampleMappings ==
    { [dateColumn |-> 0, descriptionColumn |-> 1, amountColumn |-> 2],
      [dateColumn |-> 0, descriptionColumn |-> 2, amountColumn |-> 1],
      [dateColumn |-> 3, descriptionColumn |-> 1, amountColumn |-> 2] }

MaxRows == 3

\* null in the fields of the hook's state: no file, no message, no
\* ColumnMapping, no ParseResult
NoFile == "null"
NoError == "null"
NoMapping == <<>>
NoParseResult == <<>>

\* initialState of useCSVImport
initialState ==
    [step |-> "select-file", file |-> NoFile, headers |-> <<>>, rawData |-> <<>>,
     columnMapping |-> NoMapping, parseResult |-> NoParseResult, error |-> NoError]

\* The import screen is not in use.
HookIdle ==
    /\ state = initialState
    /\ parses = {}
    /\ imports = {}
    /\ requests = <<>>
    /\ showImport = FALSE
    /\ onCompleteCalls = 0
    /\ importsSucceeded = 0

CsvIdle ==
    /\ HookIdle
    /\ rows = <<>>
    /\ mapping = [dateColumn |-> 0, descriptionColumn |-> 1, amountColumn |-> 2]
    /\ envSlashDates = FALSE
    /\ index = 0
    /\ valid = <<>>
    /\ invalid = <<>>

AnaIdle ==
    /\ transactions = <<>>
    /\ categories = <<>>
    /\ args = <<>>
    /\ call = "done"
    /\ result = <<>>

\* parseCSVToTransactions is entered: both result arrays are empty.
InitCSV ==
    /\ rows \in SeqsUpTo(SampleRows, MaxRows)
    /\ mapping \in SampleMappings
    /\ envSlashDates \in BOOLEAN
    /\ index = 0
    /\ valid = <<>>
    /\ invalid = <<>>
    /\ HookIdle
    /\ AnaIdle

\* One iteration of rows.forEach.
ProcessRow ==
    /\ index < Len(rows)
    /\ LET acc == rowCallback([valid |-> valid, invalid |-> invalid],
                              rows[index + 1], index, mapping, envSlashDates)
       IN /\ valid' = acc.valid
          /\ invalid' = acc.invalid
    /\ index' = index + 1
    /\ UNCHANGED <<rows, mapping, envSlashDates>>
    /\ UNCHANGED hookVars
    /\ UNCHANGED anaVars

NextCSV == ProcessRow

SpecCSV == InitCSV /\ [][NextCSV]_vars

\* parseCSVToTransactions has returned { valid, invalid }.
CsvDone == index = Len(rows)

----------------------------------------------------------------------------
(* Claims about parseCSVToTransactions *)

RECURSIVE Ascending(_)
\* The elements of a finite set of integers in increasing order.
Ascending(S) ==
    IF S = {} THEN <<>>
    ELSE LET m == CHOOSE x \in S : \A y \in S : x <= y
         IN <<m>> \o Ascending(S \ {m})

\* What validation makes of the row at 0-based position i, taken alone.
RowOutcome(i) ==
    validateTransactionRow(mapColumnsToTransaction(rows[i + 1], mapping), envSlashDates)

\* C1: when parseCSVToTransactions returns, every row is accounted for
\* exactly once: valid.length + invalid.length = N; every invalid entry
\* carries the 0-based position of its row and the row itself; the rowIndex
\* values increase strictly; and the valid entries are the transactions of
\* the remaining rows, in the order of those rows.
C1_PartitionsRows ==
    CsvDone =>
        LET N == Len(rows)
            invalidAt == {invalid[j].rowIndex : j \in 1..Len(invalid)}
            validAt == Ascending((0..(N - 1)) \ invalidAt)
        IN /\ Len(valid) + Len(invalid) = N
           /\ \A j \in 1..Len(invalid) :
                 /\ invalid[j].rowIndex \in 0..(N - 1)
                 /\ invalid[j].row = rows[invalid[j].rowIndex + 1]
           /\ \A j \in 1..(Len(invalid) - 1) :
                 invalid[j].rowIndex < invalid[j + 1].rowIndex
           /\ Len(valid) = Len(validAt)
           /\ \A k \in 1..Len(valid) :
                 /\ RowOutcome(validAt[k]).success
                 /\ valid[k] = RowOutcome(validAt[k]).data

\* C1 witness: a finished batch of three rows with a valid row between two
\* invalid ones (one unmappable, one failing validation).
C1_Witness ==
    /\ CsvDone
    /\ Len(rows) = 3
    /\ Len(valid) = 1
    /\ Len(invalid) = 2
    /\ invalid[1].rowIndex = 0 /\ invalid[1].error = ErrMap
    /\ invalid[2].rowIndex = 2 /\ invalid[2].error # ErrMap

----------------------------------------------------------------------------
(* Transactions and categories *)

\* categoryId: number | null.  Null is the absent id, Some(n) the id n.
Null == <<>>
Some(n) == <<n>>

\* c ?? d
Coalesce(c, d) == IF c = Null THEN d ELSE c[1]

\* A Transaction, as far as the analytics read it.
Tx(id, amount, categoryId) == [id |-> id, amount |-> amount, categoryId |-> categoryId]

\* All transaction arrays of length at most n with amounts in A and category
\* ids in C; a transaction's id is its position in the array.
TxSeqs(A, C, n) ==
    {[i \in 1..Len(s) |-> Tx(i, s[i][1], s[i][2])] : s \in SeqsUpTo(A \X C, n)}

RECURSIVE SumSeq(_)
SumSeq(s) == IF s = <<>> THEN 0 ELSE Head(s) + SumSeq(Tail(s))

\* transactions.map(t => Math.abs(t.amount))
Magnitudes(txs) == [i \in 1..Len(txs) |-> Abs(txs[i].amount)]

UncategorizedName == "Non catégorisé"

\* The category list of the analysis tests, and one in which a category has
\* the id 0.
MockCategories ==
    << [id |-> 1, name |-> "Alimentation"],
       [id |-> 2, name |-> "Transport"],
       [id |-> 3, name |-> "Loisirs"] >>

ZeroCategories ==
    << [id |-> 0, name |-> "Divers"],
       [id |-> 1, name |-> "Alimentation"],
       [id |-> 2, name |-> "Transport"] >>

NoResult == <<>>
NoArgs == <<>>

----------------------------------------------------------------------------
(* Pareto analyzer: calculateParetoAnalysis *)

\* new Map(categories.map(cat => [cat.id, cat.name])).get(id) ?? fallback:
\* the name of the last category with that id.
CategoryName(cats, id) ==
    LET at == {i \in 1..Len(cats) : cats[i].id = id}
    IN IF at = {} THEN UncategorizedName
       ELSE cats[CHOOSE i \in at : \A j \in at : j <= i].name

\* Position of key in the entries of a Map kept in insertion order, 0 if absent.
MapIndex(entries, key) ==
    LET at == {i \in 1..Len(entries) : entries[i].categoryId = key}
    IN IF at = {} THEN 0 ELSE CHOOSE i \in at : TRUE

RECURSIVE categoryTotals_Signed(_)
\* The grouping loop adding the signed amount where the code adds
\* Math.abs(transaction.amount).
categoryTotals_Signed(txs) ==
    IF txs = <<>> THEN <<>>
    ELSE LET before == categoryTotals_Signed(SubSeq(txs, 1, Len(txs) - 1))
             transaction == txs[Len(txs)]
             categoryId == Coalesce(transaction.categoryId, 0)
             at == MapIndex(before, categoryId)
             existing == IF at = 0 THEN [total |-> 0, count |-> 0]
                         ELSE [total |-> before[at].total, count |-> before[at].count]
             entry == [categoryId |-> categoryId,
                       total |-> existing.total + transaction.amount,
                       count |-> existing.count + 1]
         IN IF at = 0 THEN Append(before, entry)
            ELSE [before EXCEPT ![at] = entry]

RECURSIVE categoryTotals(_)
\* The Map built by the grouping loop, as its entries in insertion order:
\* Map.set on a key already present keeps the key's position.
categoryTotals(txs) ==
    IF txs = <<>> THEN <<>>
    ELSE LET before == categoryTotals(SubSeq(txs, 1, Len(txs) - 1))
             transaction == txs[Len(txs)]
             categoryId == Coalesce(transaction.categoryId, 0)
             at == MapIndex(before, categoryId)
             existing == IF at = 0 THEN [total |-> 0, count |-> 0]
                         ELSE [total |-> before[at].total, count |-> before[at].count]
             entry == [categoryId |-> categoryId,
                       total |-> existing.total + Abs(transaction.amount),
                       count |-> existing.count + 1]
         IN IF at = 0 THEN Append(before, entry)
            ELSE [before EXCEPT ![at] = entry]

\* Array.from(categoryTotals.values()).reduce((sum, item) => sum + item.total, 0)
totalSpendingOf(entries) == SumSeq([i \in 1..Len(entries) |-> entries[i].total])

\* The share as a fraction of 1, the "* 100" forgotten.
PercentOf_Fraction(x, totalSpending) ==
    IF totalSpending > 0 THEN Rat(x, totalSpending) ELSE RInt(0)

\* x / totalSpending * 100, or 0 when totalSpending is 0
PercentOf(x, totalSpending) ==
    IF totalSpending > 0 THEN Rat(x * 100, totalSpending) ELSE RInt(0)

\* The .map(...) that turns the Map's entries into CategorySpending objects.
toCategorySpending(entries, cats, totalSpending) ==
    [i \in 1..Len(entries) |->
        [categoryId |-> entries[i].categoryId,
         categoryName |-> CategoryName(cats, entries[i].categoryId),
         totalAmount |-> entries[i].total,
         transactionCount |-> entries[i].count,
         percentage |-> PercentOf(entries[i].total, totalSpending),
         cumulativePercentage |-> RInt(0)]]

RECURSIVE InsertDescending(_, _)
\* x put behind every element whose totalAmount is not smaller.
InsertDescending(sorted, x) ==
    IF sorted = <<>> THEN <<x>>
    ELSE IF Head(sorted).totalAmount >= x.totalAmount
         THEN <<Head(sorted)>> \o InsertDescending(Tail(sorted), x)
         ELSE <<x>> \o sorted

RECURSIVE InsertDescendingUnstable(_, _)
\* x put before the elements of equal totalAmount.
InsertDescendingUnstable(sorted, x) ==
    IF sorted = <<>> THEN <<x>>
    ELSE IF Head(sorted).totalAmount > x.totalAmount
         THEN <<Head(sorted)>> \o InsertDescendingUnstable(Tail(sorted), x)
         ELSE <<x>> \o sorted

RECURSIVE sortByTotalDesc_Unstable(_)
\* A sort that reverses the elements of equal totalAmount.
sortByTotalDesc_Unstable(s) ==
    IF s = <<>> THEN <<>>
    ELSE InsertDescendingUnstable(sortByTotalDesc_Unstable(SubSeq(s, 1, Len(s) - 1)), s[Len(s)])

RECURSIVE sortByTotalDesc(_)
\* .sort((a, b) => b.totalAmount - a.totalAmount): Array.prototype.sort is
\* stable, so elements that compare equal keep their order.
sortByTotalDesc(s) ==
    IF s = <<>> THEN <<>>
    ELSE InsertDescending(sortByTotalDesc(SubSeq(s, 1, Len(s) - 1)), s[Len(s)])

\* The loop with cumulativeSum reset on every iteration.
withCumulative_NotRunning(sorted, totalSpending) ==
    [i \in 1..Len(sorted) |->
        [sorted[i] EXCEPT !.cumulativePercentage =
            PercentOf(sorted[i].totalAmount, totalSpending)]]

\* The loop that fills in cumulativePercentage along the sorted array.
withCumulative(sorted, totalSpending) ==
    [i \in 1..Len(sorted) |->
        [sorted[i] EXCEPT !.cumulativePercentage =
            PercentOf(SumSeq([j \in 1..i |-> sorted[j].totalAmount]), totalSpending)]]

WithinEighty(cat) == RLe(cat.cumulativePercentage, RInt(80))

OwnShareWithinEighty(cat) == RLe(cat.percentage, RInt(80))

\* The Pareto prefix selection filtering on percentage, the category's own
\* share, where the code filters on cumulativePercentage.
selectPareto_ByShare(sortedCategories) ==
    LET filtered == SelectSeq(sortedCategories, OwnShareWithinEighty)
    IN IF Len(filtered) = 0 /\ Len(sortedCategories) > 0
       THEN <<sortedCategories[1]>>
       ELSE IF Len(filtered) < Len(sortedCategories)
       THEN Append(filtered, sortedCategories[Len(filtered) + 1])
       ELSE filtered

\* The Pareto prefix selection with the entry after the filtered ones never added.
selectPareto_NoCrossing(sortedCategories) ==
    LET filtered == SelectSeq(sortedCategories, WithinEighty)
    IN IF Len(filtered) = 0 /\ Len(sortedCategories) > 0
       THEN <<sortedCategories[1]>>
       ELSE filtered

\* The Pareto prefix selection: the filter on cumulativePercentage <= 80 and
\* the two pushes that follow it.
selectPareto(sortedCategories) ==
    LET filtered == SelectSeq(sortedCategories, WithinEighty)
    IN IF Len(filtered) = 0 /\ Len(sortedCategories) > 0
       THEN <<sortedCategories[1]>>
       ELSE IF Len(filtered) < Len(sortedCategories)
       THEN Append(filtered, sortedCategories[Len(filtered) + 1])
       ELSE filtered

\* calculateParetoAnalysis
calculateParetoAnalysis(txs, cats) ==
    IF Len(txs) = 0
    THEN [categories |-> <<>>, paretoCategories |-> <<>>,
          totalSpending |-> 0, paretoThreshold |-> RInt(0)]
    ELSE LET entries == categoryTotals(txs)
             totalSpending == totalSpendingOf(entries)
             sortedCategories ==
                 withCumulative(
                     sortByTotalDesc(toCategorySpending(entries, cats, totalSpending)),
                     totalSpending)
         IN [categories |-> sortedCategories,
             paretoCategories |-> selectPareto(sortedCategories),
             totalSpending |-> totalSpending,
             paretoThreshold |-> Rat(totalSpending * 8, 10)]

\* Inputs of the Pareto analysis: amounts that make a total of 0, a
\* cumulative share of exactly 80% (4 of 5) and equal group totals possible.
ParetoAmounts == {0, 1, -4}
ParetoCategoryIds == {Null, Some(0), Some(1), Some(2)}
MaxParetoTx == 3

InitPareto ==
    /\ transactions \in TxSeqs(ParetoAmounts, ParetoCategoryIds, MaxParetoTx)
    /\ categories \in {MockCategories, ZeroCategories}
    /\ args = NoArgs
    /\ call = "calculateParetoAnalysis"
    /\ result = NoResult
    /\ CsvIdle

CalculateParetoAnalysis ==
    /\ call = "calculateParetoAnalysis"
    /\ result' = calculateParetoAnalysis(transactions, categories)
    /\ call' = "done"
    /\ UNCHANGED <<transactions, categories, args>>
    /\ UNCHANGED csvVars

NextPareto == CalculateParetoAnalysis

SpecPareto == InitPareto /\ [][NextPareto]_vars

\* calculateParetoAnalysis has returned.
ParetoDone == call = "done" /\ result # NoResult

----------------------------------------------------------------------------
(* Claims about calculateParetoAnalysis *)

Last(s) == s[Len(s)]

ReachesEighty(cat) == RLe(RInt(80), cat.cumulativePercentage)

IsPrefix(s, t) == Len(s) <= Len(t) /\ \A i \in 1..Len(s) : s[i] = t[i]

\* Group key of a transaction, and the position at which a key first occurs.
GroupKey(t) == Coalesce(t.categoryId, 0)
FirstSeen(key) ==
    CHOOSE i \in 1..Len(transactions) :
        /\ GroupKey(transactions[i]) = key
        /\ \A j \in 1..(i - 1) : GroupKey(transactions[j]) # key

\* C2: with totalSpending > 0, paretoCategories is the minimal prefix of
\* categories whose cumulative percentage reaches 80: its last entry has
\* cumulativePercentage >= 80 and no shorter prefix ends on such an entry.
C2_MinimalPrefix ==
    (ParetoDone /\ result.totalSpending > 0) =>
        /\ result.paretoCategories # <<>>
        /\ IsPrefix(result.paretoCategories, result.categories)
        /\ ReachesEighty(Last(result.paretoCategories))
        /\ \A k \in 1..(Len(result.paretoCategories) - 1) :
              ~ReachesEighty(result.categories[k])

\* C3: whenever categories is non-empty, paretoCategories is a non-empty
\* prefix of it.
C3_NonEmptyPrefix ==
    (ParetoDone /\ result.categories # <<>>) =>
        /\ 1 <= Len(result.paretoCategories)
        /\ Len(result.paretoCategories) <= Len(result.categories)
        /\ \A i \in 1..Len(result.paretoCategories) :
              result.paretoCategories[i] = result.categories[i]

\* C3 witness: a ranking of two categories of which the first alone exceeds
\* 80%, so that the filter keeps nothing and the top entry is pushed: the
\* prefix is non-empty and proper.
C3_Witness ==
    /\ ParetoDone
    /\ Len(result.categories) = 2
    /\ Len(result.paretoCategories) = 1
    /\ ~WithinEighty(result.categories[1])

\* C4 as stated: for every non-empty input the last entry of
\* paretoCategories has cumulativePercentage >= 80.
C4_ReachesEightyAlways ==
    (ParetoDone /\ Len(transactions) > 0) =>
        /\ result.paretoCategories # <<>>
        /\ ReachesEighty(Last(result.paretoCategories))

\* C4 amended: for every input with totalSpending > 0 the last entry of
\* paretoCategories has cumulativePercentage >= 80.
C4_ReachesEightyWhenSpending ==
    (ParetoDone /\ result.totalSpending > 0) =>
        /\ result.paretoCategories # <<>>
        /\ ReachesEighty(Last(result.paretoCategories))

\* C4 witness: the filter stopped short of 80% and the entry that crosses
\* the line was added, leaving a category out.
C4_Witness ==
    /\ ParetoDone
    /\ result.totalSpending > 0
    /\ Len(result.paretoCategories) = 2
    /\ Len(result.categories) = 3
    /\ ~ReachesEighty(result.paretoCategories[1])
    /\ ReachesEighty(result.paretoCategories[2])

\* C5: for every non-empty input with totalSpending > 0, each percentage is
\* groupTotal / totalSpending * 100, the group totals sum to totalSpending,
\* and the percentages of all categories sum to 100.
C5_PercentagesSumTo100 ==
    (ParetoDone /\ Len(transactions) > 0 /\ result.totalSpending > 0) =>
        LET cs == result.categories
        IN /\ \A i \in 1..Len(cs) :
                 REq(cs[i].percentage, Rat(cs[i].totalAmount * 100, result.totalSpending))
           /\ SumSeq([i \in 1..Len(cs) |-> cs[i].totalAmount]) = result.totalSpending
           /\ REq(RSum([i \in 1..Len(cs) |-> cs[i].percentage]), RInt(100))

\* C5 witness: three categories with different shares.
C5_Witness ==
    /\ ParetoDone
    /\ result.totalSpending > 0
    /\ Len(result.categories) = 3
    /\ result.categories[1].totalAmount > result.categories[3].totalAmount

\* C6 as stated: whenever categories is non-empty, cumulativePercentage is
\* non-decreasing along it and is 100 at the last entry.
C6_CumulativeEndsAt100Always ==
    (ParetoDone /\ result.categories # <<>>) =>
        LET cs == result.categories
        IN /\ \A i \in 1..(Len(cs) - 1) :
                 RLe(cs[i].cumulativePercentage, cs[i + 1].cumulativePercentage)
           /\ REq(Last(cs).cumulativePercentage, RInt(100))

\* C6 amended: whenever categories is non-empty, cumulativePercentage is
\* non-decreasing along it, and it is 100 at the last entry when
\* totalSpending > 0 (when totalSpending is 0 it is 0 at every entry).
C6_CumulativeEndsAt100WhenSpending ==
    (ParetoDone /\ result.categories # <<>>) =>
        LET cs == result.categories
        IN /\ \A i \in 1..(Len(cs) - 1) :
                 RLe(cs[i].cumulativePercentage, cs[i + 1].cumulativePercentage)
           /\ result.totalSpending > 0 =>
                 REq(Last(cs).cumulativePercentage, RInt(100))
           /\ result.totalSpending = 0 =>
                 \A i \in 1..Len(cs) : REq(cs[i].cumulativePercentage, RInt(0))

\* C6 witness: three categories whose cumulative percentages rise strictly.
C6_Witness ==
    /\ ParetoDone
    /\ result.totalSpending > 0
    /\ Len(result.categories) = 3
    /\ RLt(result.categories[1].cumulativePercentage,
           result.categories[2].cumulativePercentage)
    /\ RLt(result.categories[2].cumulativePercentage,
           result.categories[3].cumulativePercentage)

\* C7: categories is sorted in descending order of totalAmount, and two
\* groups with equal totalAmount appear in the order in which their
\* category was first encountered in the input.
C7_SortedStable ==
    ParetoDone =>
        LET cs == result.categories
        IN \A i \in 1..Len(cs) : \A j \in (i + 1)..Len(cs) :
              /\ cs[i].totalAmount >= cs[j].totalAmount
              /\ cs[i].totalAmount = cs[j].totalAmount =>
                    FirstSeen(cs[i].categoryId) < FirstSeen(cs[j].categoryId)

\* C7 witness: two groups tie, a third is larger, and the larger one was
\* encountered last.
C7_Witness ==
    /\ ParetoDone
    /\ Len(result.categories) = 3
    /\ result.categories[1].totalAmount > result.categories[2].totalAmount
    /\ result.categories[2].totalAmount = result.categories[3].totalAmount
    /\ result.categories[2].totalAmount > 0
    /\ FirstSeen(result.categories[1].categoryId) = 3

----------------------------------------------------------------------------
(* Statistics engine: calculateSpendingStats *)

RECURSIVE InsertAscending(_, _)
InsertAscending(sorted, x) ==
    IF sorted = <<>> THEN <<x>>
    ELSE IF Head(sorted) <= x
         THEN <<Head(sorted)>> \o InsertAscending(Tail(sorted), x)
         ELSE <<x>> \o sorted

RECURSIVE sortAscending(_)
\* [...amounts].sort((a, b) => a - b)
sortAscending(s) ==
    IF s = <<>> THEN <<>>
    ELSE InsertAscending(sortAscending(SubSeq(s, 1, Len(s) - 1)), s[Len(s)])

\* Math.min(...amounts) and Math.max(...amounts) of a non-empty array
MinOf(s) == CHOOSE x \in Range(s) : \A y \in Range(s) : x <= y
MaxOf(s) == CHOOSE x \in Range(s) : \A y \in Range(s) : x >= y

\* The median with the upper middle element taken alone for an even count.
medianOf_UpperMiddle(sortedAmounts) ==
    LET mid == Len(sortedAmounts) \div 2
    IN RInt(sortedAmounts[mid + 1])

\* The median of the sorted amounts; mid is the code's 0-based index.
medianOf(sortedAmounts) ==
    LET mid == Len(sortedAmounts) \div 2
    IN IF Len(sortedAmounts) % 2 = 0
       THEN Rat(sortedAmounts[mid] + sortedAmounts[mid + 1], 2)
       ELSE RInt(sortedAmounts[mid + 1])

\* calculateSpendingStats
calculateSpendingStats(txs) ==
    IF Len(txs) = 0
    THEN [total |-> 0, average |-> RInt(0), median |-> RInt(0),
          min |-> 0, max |-> 0, count |-> 0]
    ELSE LET amounts == Magnitudes(txs)
             total == SumSeq(amounts)
         IN [total |-> total,
             average |-> Rat(total, Len(amounts)),
             median |-> medianOf(sortAscending(amounts)),
             min |-> MinOf(amounts),
             max |-> MaxOf(amounts),
             count |-> Len(txs)]

StatsAmounts == {-5, 0, 1, 2, 8}
MaxStatsTx == 4

InitStats ==
    /\ transactions \in TxSeqs(StatsAmounts, {Some(1)}, MaxStatsTx)
    /\ categories = <<>>
    /\ args = NoArgs
    /\ call = "calculateSpendingStats"
    /\ result = NoResult
    /\ CsvIdle

CalculateSpendingStats ==
    /\ call = "calculateSpendingStats"
    /\ result' = calculateSpendingStats(transactions)
    /\ call' = "done"
    /\ UNCHANGED <<transactions, categories, args>>
    /\ UNCHANGED csvVars

NextStats == CalculateSpendingStats

SpecStats == InitStats /\ [][NextStats]_vars

StatsDone == call = "done" /\ result # NoResult

----------------------------------------------------------------------------
(* Claims about calculateSpendingStats *)

\* The element at 0-based position p of the values of m in ascending order,
\* given by counting: fewer than p + 1 values lie below it and at least
\* p + 1 values are not above it.
AtSortedPosition(m, p) ==
    CHOOSE v \in Range(m) :
        /\ Cardinality({i \in 1..Len(m) : m[i] < v}) <= p
        /\ Cardinality({i \in 1..Len(m) : m[i] <= v}) > p

RECURSIVE SumOver(_, _)
\* Sum of f over the index set I.
SumOver(f, I) ==
    IF I = {} THEN 0
    ELSE LET i == CHOOSE x \in I : TRUE IN f[i] + SumOver(f, I \ {i})

\* C8: on empty input every field is 0; on non-empty input, with m the
\* magnitudes, count is the number of transactions, total the sum of m,
\* average total / count, min and max the smallest and largest of m, and
\* median the middle element of m in ascending order (odd count) or the
\* mean of the two middle elements (even count).
C8_SpendingStats ==
    StatsDone =>
        LET n == Len(transactions)
            m == [i \in 1..n |-> IF transactions[i].amount < 0
                                 THEN 0 - transactions[i].amount
                                 ELSE transactions[i].amount]
        IN IF n = 0
           THEN /\ result.total = 0 /\ result.count = 0
                /\ result.min = 0 /\ result.max = 0
                /\ REq(result.average, RInt(0)) /\ REq(result.median, RInt(0))
           ELSE /\ result.count = n
                /\ result.total = SumOver(m, 1..n)
                /\ n * result.average.num = result.total * result.average.den
                /\ result.min \in Range(m) /\ \A i \in 1..n : result.min <= m[i]
                /\ result.max \in Range(m) /\ \A i \in 1..n : result.max >= m[i]
                /\ IF n % 2 = 1
                   THEN REq(result.median, RInt(AtSortedPosition(m, (n - 1) \div 2)))
                   ELSE REq(result.median,
                            Rat(AtSortedPosition(m, n \div 2 - 1)
                                  + AtSortedPosition(m, n \div 2), 2))

\* C8 witness: four transactions, one negative, whose two middle magnitudes
\* differ, so that the median lies strictly between them.
C8_Witness ==
    /\ StatsDone
    /\ Len(transactions) = 4
    /\ \E i \in 1..4 : transactions[i].amount < 0
    /\ result.min < result.max
    /\ RLt(RInt(result.min), result.median)
    /\ RLt(result.median, RInt(result.max))
    /\ result.median.num % result.median.den # 0

----------------------------------------------------------------------------
(* Statistics engine: findOutliers *)

RECURSIVE InsertByMagnitude(_, _)
InsertByMagnitude(sorted, t) ==
    IF sorted = <<>> THEN <<t>>
    ELSE IF Abs(Head(sorted).amount) <= Abs(t.amount)
         THEN <<Head(sorted)>> \o InsertByMagnitude(Tail(sorted), t)
         ELSE <<t>> \o sorted

RECURSIVE sortByMagnitude(_)
\* [...transactions].sort((a, b) => Math.abs(a.amount) - Math.abs(b.amount))
sortByMagnitude(txs) ==
    IF txs = <<>> THEN <<>>
    ELSE InsertByMagnitude(sortByMagnitude(SubSeq(txs, 1, Len(txs) - 1)), txs[Len(txs)])

\* The upper bound measured from q1: q1 + threshold * iqr.
upperBoundOf_FromQ1(q1, q3, threshold) ==
    Rat(q1 * threshold.den + threshold.num * (q3 - q1), threshold.den)

\* q3 + threshold * iqr, the threshold being the rational threshold.num / threshold.den
upperBoundOf(q1, q3, threshold) ==
    Rat(q3 * threshold.den + threshold.num * (q3 - q1), threshold.den)

\* findOutliers flagging the low side as well: below q1 - threshold * iqr.
findOutliers_TwoSided(txs, threshold) ==
    IF Len(txs) < 4 THEN <<>>
    ELSE LET sortedTransactions == sortByMagnitude(txs)
             q1 == Abs(sortedTransactions[(Len(txs) \div 4) + 1].amount)
             q3 == Abs(sortedTransactions[((3 * Len(txs)) \div 4) + 1].amount)
             upperBound == upperBoundOf(q1, q3, threshold)
             lowerBound == Rat(q1 * threshold.den - threshold.num * (q3 - q1), threshold.den)
             IsOutlier(t) == \/ RLt(upperBound, RInt(Abs(t.amount)))
                             \/ RLt(RInt(Abs(t.amount)), lowerBound)
         IN SelectSeq(txs, IsOutlier)

\* findOutliers; Math.floor(n * 0.25) is n \div 4 and Math.floor(n * 0.75)
\* is 3n \div 4, and the indices are the code's 0-based ones plus 1.
findOutliers(txs, threshold) ==
    IF Len(txs) < 4 THEN <<>>
    ELSE LET sortedTransactions == sortByMagnitude(txs)
             q1Index == Len(sortedTransactions) \div 4
             q3Index == (3 * Len(sortedTransactions)) \div 4
             q1 == Abs(sortedTransactions[q1Index + 1].amount)
             q3 == Abs(sortedTransactions[q3Index + 1].amount)
             upperBound == upperBoundOf(q1, q3, threshold)
             IsOutlier(t) == RLt(upperBound, RInt(Abs(t.amount)))
         IN SelectSeq(txs, IsOutlier)

\* The threshold parameter's default, 1.5
DefaultThreshold == Rat(3, 2)

\* The transactions of the test 'should identify high spending outliers'
OutlierExample ==
    [i \in 1..5 |-> Tx(i, <<100, 110, 120, 130, 1000>>[i], Some(1))]

OutlierAmounts == {1, -2, 3, 9}
Thresholds == {RInt(0), RInt(1), DefaultThreshold, RInt(3)}
MaxOutlierTx == 5

\* Longer inputs over two magnitudes: from nine transactions on, more than
\* one transaction can lie above Q3.
WideOutlierAmounts == {1, -9}
WideOutlierTx == 9
WideOutlierInputs ==
    {[i \in 1..WideOutlierTx |-> Tx(i, s[i], Some(1))] :
        s \in [1..WideOutlierTx -> WideOutlierAmounts]}

InitOutliers ==
    /\ transactions \in TxSeqs(OutlierAmounts, {Some(1)}, MaxOutlierTx)
                          \cup WideOutlierInputs \cup {OutlierExample}
    /\ categories = <<>>
    /\ args \in {[threshold |-> k] : k \in Thresholds}
    /\ call = "findOutliers"
    /\ result = NoResult
    /\ CsvIdle

FindOutliers ==
    /\ call = "findOutliers"
    /\ result' = [outliers |-> findOutliers(transactions, args.threshold)]
    /\ call' = "done"
    /\ UNCHANGED <<transactions, categories, args>>
    /\ UNCHANGED csvVars

NextOutliers == FindOutliers

SpecOutliers == InitOutliers /\ [][NextOutliers]_vars

OutliersDone == call = "done" /\ result # NoResult

----------------------------------------------------------------------------
(* Claims about findOutliers *)

\* C9: with fewer than 4 transactions the result is empty; with n >= 4 it
\* is, in input order, exactly the transactions whose magnitude is strictly
\* greater than Q3 + k * (Q3 - Q1), Q1 and Q3 being the magnitudes at
\* positions floor(0.25 n) and floor(0.75 n) of the ascending order, so that
\* no transaction at or below Q3 is flagged; and the magnitudes
\* 100, 110, 120, 130, 1000 with k = 1.5 give exactly the 1000 transaction.
C9_Outliers ==
    OutliersDone =>
        LET n == Len(transactions)
            m == [i \in 1..n |-> IF transactions[i].amount < 0
                                 THEN 0 - transactions[i].amount
                                 ELSE transactions[i].amount]
            k == args.threshold
            Q1 == AtSortedPosition(m, n \div 4)
            Q3 == AtSortedPosition(m, (3 * n) \div 4)
            High(i) == m[i] * k.den > Q3 * k.den + k.num * (Q3 - Q1)
            flagged == Ascending({i \in 1..n : High(i)})
            out == result.outliers
        IN /\ n < 4 => out = <<>>
           /\ n >= 4 =>
                 /\ Len(out) = Len(flagged)
                 /\ \A j \in 1..Len(out) : out[j] = transactions[flagged[j]]
                 /\ \A j \in 1..Len(out) : Abs(out[j].amount) > Q3
           /\ (transactions = OutlierExample /\ k = DefaultThreshold) =>
                 out = <<OutlierExample[5]>>

\* C9 witness: nine transactions of which two, not adjacent in the input,
\* are returned in input order, the others being smaller.
C9_Witness ==
    /\ OutliersDone
    /\ Len(transactions) = 9
    /\ args.threshold = DefaultThreshold
    /\ Len(result.outliers) = 2
    /\ result.outliers[1].id = 2
    /\ result.outliers[2].id = 5
    /\ Abs(transactions[1].amount) < Abs(transactions[2].amount)

----------------------------------------------------------------------------
(* Statistics engine: calculateDailyAverage *)

\* 1000 * 60 * 60 * 24, the milliseconds of a day
MsPerDay == 1000 * 60 * 60 * 24

\* A Date is its getTime() value, counted in milliseconds from
\* 2024-01-01T00:00:00Z; DateAt(d, ms) is ms milliseconds into day d.
DateAt(d, ms) == d * MsPerDay + ms

\* Math.ceil(a / b) for b > 0
CeilDiv(a, b) == 0 - ((0 - a) \div b)

\* calculateDailyAverage without the clamp of the day count to at least 1.
calculateDailyAverage_NoClamp(txs, startDate, endDate) ==
    IF Len(txs) = 0 THEN RInt(0)
    ELSE Rat(SumSeq(Magnitudes(txs)), CeilDiv(endDate - startDate, MsPerDay))

\* calculateDailyAverage
calculateDailyAverage(txs, startDate, endDate) ==
    IF Len(txs) = 0 THEN RInt(0)
    ELSE LET totalSpending == SumSeq(Magnitudes(txs))
             daysDiff == CeilDiv(endDate - startDate, MsPerDay)
             days == Max2(daysDiff, 1)
         IN Rat(totalSpending, days)

\* Periods: any two instants at midnight or noon of the days 0..MaxDay
\* (day 0 is 1 January, day 9 is 10 January).
MaxDay == 9
Instants == {DateAt(d, ms) : d \in 0..MaxDay, ms \in {0, MsPerDay \div 2}}
DailyAmounts == {100, 200, -50}
MaxDailyTx == 2

InitDaily ==
    /\ transactions \in TxSeqs(DailyAmounts, {Some(1)}, MaxDailyTx)
    /\ categories = <<>>
    /\ args \in {[startDate |-> a, endDate |-> b] : a \in Instants, b \in Instants}
    /\ call = "calculateDailyAverage"
    /\ result = NoResult
    /\ CsvIdle

CalculateDailyAverage ==
    /\ call = "calculateDailyAverage"
    /\ result' = [average |->
                    calculateDailyAverage(transactions, args.startDate, args.endDate)]
    /\ call' = "done"
    /\ UNCHANGED <<transactions, categories, args>>
    /\ UNCHANGED csvVars

NextDaily == CalculateDailyAverage

SpecDaily == InitDaily /\ [][NextDaily]_vars

DailyDone == call = "done" /\ result # NoResult

----------------------------------------------------------------------------
(* Claims about calculateDailyAverage *)

\* C10: for a period from the start of a day to the start of a later or the
\* same day, the total magnitude is divided by the number of calendar days
\* with both the start day and the end day counted; from 1 January to
\* 10 January that is 10 days, so transactions totalling 300 average 30.
C10_InclusiveDays ==
    (/\ DailyDone
     /\ Len(transactions) > 0
     /\ args.startDate % MsPerDay = 0
     /\ args.endDate % MsPerDay = 0
     /\ args.startDate <= args.endDate) =>
        LET total == SumOver([i \in 1..Len(transactions) |->
                                 IF transactions[i].amount < 0
                                 THEN 0 - transactions[i].amount
                                 ELSE transactions[i].amount],
                             1..Len(transactions))
            startDay == args.startDate \div MsPerDay
            endDay == args.endDate \div MsPerDay
        IN /\ REq(result.average, Rat(total, endDay - startDay + 1))
           /\ (startDay = 0 /\ endDay = 9 /\ total = 300) =>
                 REq(result.average, RInt(30))

----------------------------------------------------------------------------
(* Statistics engine: calculateStandardDeviation *)

\* Math.sqrt is not a rational function: the value returned is kept as the
\* number it is the square root of (its field "squared"), which is 0 exactly
\* when the value is 0 and positive exactly when the value is.
SqrtOf(variance) == [squared |-> variance]

\* The variance with the squared differences divided by count - 1.
varianceOf_Sample(amounts) ==
    LET n == Len(amounts)
        total == SumSeq(amounts)
        squaredDifferences ==
            [i \in 1..n |-> (n * amounts[i] - total) * (n * amounts[i] - total)]
    IN Rat(SumSeq(squaredDifferences), n * n * (n - 1))

\* average, squaredDifferences and variance of calculateStandardDeviation:
\* amount - average is (n * amount - total) / n, its square has the
\* denominator n * n, and the sum of the squares is divided by n again.
varianceOf(amounts) ==
    LET n == Len(amounts)
        total == SumSeq(amounts)
        squaredDifferences ==
            [i \in 1..n |-> (n * amounts[i] - total) * (n * amounts[i] - total)]
    IN Rat(SumSeq(squaredDifferences), n * n * n)

\* calculateStandardDeviation
calculateStandardDeviation(txs) ==
    IF Len(txs) = 0 THEN SqrtOf(RInt(0))
    ELSE SqrtOf(varianceOf(Magnitudes(txs)))

\* Amounts among which two differ only in sign.
StdDevAmounts == {-5, 0, 2, 5}

InitStdDev ==
    /\ transactions \in TxSeqs(StdDevAmounts, {Some(1)}, MaxStatsTx)
    /\ categories = <<>>
    /\ args = NoArgs
    /\ call = "calculateStandardDeviation"
    /\ result = NoResult
    /\ CsvIdle

CalculateStandardDeviation ==
    /\ call = "calculateStandardDeviation"
    /\ result' = [deviation |-> calculateStandardDeviation(transactions)]
    /\ call' = "done"
    /\ UNCHANGED <<transactions, categories, args>>
    /\ UNCHANGED csvVars

NextStdDev == CalculateStandardDeviation

SpecStdDev == InitStdDev /\ [][NextStdDev]_vars

StdDevDone == call = "done" /\ result # NoResult

----------------------------------------------------------------------------
(* Claims about calculateStandardDeviation *)

----------------------------------------------------------------------------
(* Statistics engine: calculateStatsByCategory *)

RECURSIVE transactionsByCategory_Overwrite(_)
\* The grouping loop with the group replaced by the transaction alone
\* where the code appends the transaction to the existing group.
transactionsByCategory_Overwrite(txs) ==
    IF txs = <<>> THEN <<>>
    ELSE LET before == transactionsByCategory_Overwrite(SubSeq(txs, 1, Len(txs) - 1))
             transaction == txs[Len(txs)]
             categoryId == Coalesce(transaction.categoryId, 0)
             at == MapIndex(before, categoryId)
             entry == [categoryId |-> categoryId, transactions |-> <<transaction>>]
         IN IF at = 0 THEN Append(before, entry)
            ELSE [before EXCEPT ![at] = entry]

RECURSIVE transactionsByCategory(_)
\* The Map built by the grouping loop of calculateStatsByCategory, as its
\* entries in insertion order.
transactionsByCategory(txs) ==
    IF txs = <<>> THEN <<>>
    ELSE LET before == transactionsByCategory(SubSeq(txs, 1, Len(txs) - 1))
             transaction == txs[Len(txs)]
             categoryId == Coalesce(transaction.categoryId, 0)
             at == MapIndex(before, categoryId)
             existing == IF at = 0 THEN <<>> ELSE before[at].transactions
             entry == [categoryId |-> categoryId,
                       transactions |-> Append(existing, transaction)]
         IN IF at = 0 THEN Append(before, entry)
            ELSE [before EXCEPT ![at] = entry]

\* calculateStatsByCategory: the returned Map as its entries
calculateStatsByCategory(txs) ==
    LET groups == transactionsByCategory(txs)
    IN [i \in 1..Len(groups) |->
           [categoryId |-> groups[i].categoryId,
            stats |-> calculateSpendingStats(groups[i].transactions)]]

ByCategoryAmounts == {1, -2, 5}
ByCategoryIds == {Null, Some(0), Some(1)}
MaxByCategoryTx == 3

InitByCategory ==
    /\ transactions \in TxSeqs(ByCategoryAmounts, ByCategoryIds, MaxByCategoryTx)
    /\ categories = <<>>
    /\ args = NoArgs
    /\ call = "calculateStatsByCategory"
    /\ result = NoResult
    /\ CsvIdle

CalculateStatsByCategory ==
    /\ call = "calculateStatsByCategory"
    /\ result' = [statsByCategory |-> calculateStatsByCategory(transactions)]
    /\ call' = "done"
    /\ UNCHANGED <<transactions, categories, args>>
    /\ UNCHANGED csvVars

NextByCategory == CalculateStatsByCategory

SpecByCategory == InitByCategory /\ [][NextByCategory]_vars

ByCategoryDone == call = "done" /\ result # NoResult

----------------------------------------------------------------------------
(* Claims about calculateStatsByCategory *)

\* C13: the returned mapping has exactly one key per group of the input, a
\* transaction's group being its categoryId with null mapped to 0; the value
\* at each key is calculateSpendingStats of the sub-list of the input's
\* transactions of that group; the counts over all keys sum to the number
\* of transactions; the mapping is empty for empty input.
C13_StatsPerGroup ==
    ByCategoryDone =>
        LET map == result.statsByCategory
            keyOf(t) == IF t.categoryId = Null THEN 0 ELSE t.categoryId[1]
        IN /\ \A i \in 1..Len(map) : \A j \in 1..Len(map) :
                 map[i].categoryId = map[j].categoryId => i = j
           /\ {map[i].categoryId : i \in 1..Len(map)}
                 = {keyOf(transactions[i]) : i \in 1..Len(transactions)}
           /\ \A i \in 1..Len(map) :
                 LET InGroup(t) == keyOf(t) = map[i].categoryId
                 IN map[i].stats = calculateSpendingStats(SelectSeq(transactions, InGroup))
           /\ SumOver([i \in 1..Len(map) |-> map[i].stats.count], 1..Len(map))
                 = Len(transactions)
           /\ transactions = <<>> => map = <<>>

\* C13 witness: three transactions in two groups, the group first met
\* holding the first and the last transaction.
C13_Witness ==
    /\ ByCategoryDone
    /\ Len(transactions) = 3
    /\ Len(result.statsByCategory) = 2
    /\ result.statsByCategory[1].stats.count = 2
    /\ transactions[1].categoryId = transactions[3].categoryId
    /\ transactions[1].amount # transactions[3].amount

----------------------------------------------------------------------------
(* Claims about the group of uncategorized transactions *)

\* C14: "uncategorized" never collides with a real category id of 0: the
\* analysis has one group per distinct categoryId of the input, null being
\* distinct from 0; the transactions with a null categoryId form a group of
\* their own reported as uncategorized, and the transactions with
\* categoryId 0, when the category list has a category 0, form a group of
\* their own reported under that category's name.
C14_NullDistinctFromZero ==
    ParetoDone =>
        LET groups == result.categories
            nullTx == {i \in 1..Len(transactions) : transactions[i].categoryId = Null}
            zeroTx == {i \in 1..Len(transactions) : transactions[i].categoryId = Some(0)}
            hasZero == \E i \in 1..Len(categories) : categories[i].id = 0
        IN /\ Len(groups)
                 = Cardinality({transactions[i].categoryId : i \in 1..Len(transactions)})
           /\ nullTx # {} =>
                 \E g \in 1..Len(groups) :
                    /\ groups[g].categoryName = UncategorizedName
                    /\ groups[g].transactionCount = Cardinality(nullTx)
           /\ (zeroTx # {} /\ hasZero) =>
                 \E g \in 1..Len(groups) :
                    /\ groups[g].categoryName = CategoryName(categories, 0)
                    /\ groups[g].transactionCount = Cardinality(zeroTx)

----------------------------------------------------------------------------
(* Transaction filters: the Transaction records they read *)

\* A Transaction with all its fields; date is the getTime() value of the
\* Date, description a sequence of one-character strings.
Transaction(id, date, description, amount, categoryId) ==
    [id |-> id, date |-> date, description |-> description,
     amount |-> amount, categoryId |-> categoryId]

\* All Transaction arrays of length at most n with fields drawn from the
\* given sets; a transaction's id is its position in the array.
TransactionSeqs(Dates, Descriptions, Amounts, CategoryIds, n) ==
    {[i \in 1..Len(s) |-> Transaction(i, s[i][1], s[i][2], s[i][3], s[i][4])] :
        s \in SeqsUpTo(Dates \X Descriptions \X Amounts \X CategoryIds, n)}

\* An argument left out of the call
Undefined == "undefined"

----------------------------------------------------------------------------
(* Transaction filters: sortByDate, sortByAmount *)

\* The comparator of sortByDate
compareByDate(a, b, order) ==
    IF order = "asc" THEN a.date - b.date ELSE b.date - a.date

\* The comparator of sortByAmount
compareByAmount(a, b, order) ==
    IF order = "asc" THEN Abs(a.amount) - Abs(b.amount)
    ELSE Abs(b.amount) - Abs(a.amount)

RECURSIVE InsertByDate_Unstable(_, _, _)
\* The insertion with x put in front of the elements it ties with.
InsertByDate_Unstable(sorted, x, order) ==
    IF sorted = <<>> THEN <<x>>
    ELSE IF compareByDate(Head(sorted), x, order) < 0
         THEN <<Head(sorted)>> \o InsertByDate_Unstable(Tail(sorted), x, order)
         ELSE <<x>> \o sorted

RECURSIVE InsertByDate(_, _, _)
\* Array.prototype.sort is stable: x goes behind every element the
\* comparator does not put after it.
InsertByDate(sorted, x, order) ==
    IF sorted = <<>> THEN <<x>>
    ELSE IF compareByDate(Head(sorted), x, order) <= 0
         THEN <<Head(sorted)>> \o InsertByDate(Tail(sorted), x, order)
         ELSE <<x>> \o sorted

RECURSIVE sortedByDate(_, _)
sortedByDate(txs, order) ==
    IF txs = <<>> THEN <<>>
    ELSE InsertByDate(sortedByDate(SubSeq(txs, 1, Len(txs) - 1), order),
                      txs[Len(txs)], order)

RECURSIVE InsertByAmount(_, _, _)
InsertByAmount(sorted, x, order) ==
    IF sorted = <<>> THEN <<x>>
    ELSE IF compareByAmount(Head(sorted), x, order) <= 0
         THEN <<Head(sorted)>> \o InsertByAmount(Tail(sorted), x, order)
         ELSE <<x>> \o sorted

RECURSIVE sortedByAmount(_, _)
sortedByAmount(txs, order) ==
    IF txs = <<>> THEN <<>>
    ELSE InsertByAmount(sortedByAmount(SubSeq(txs, 1, Len(txs) - 1), order),
                        txs[Len(txs)], order)

\* The default of the order parameter
OrderOrDefault(order) == IF order = Undefined THEN "desc" ELSE order

\* sortByDate sorting the array it was given instead of a copy of it.
sortByDate_InPlace(txs, order) ==
    LET sorted == sortedByDate(txs, OrderOrDefault(order))
    IN [transactions |-> sorted, returned |-> sorted, sameArray |-> TRUE]

\* sortByDate: [...transactions] is a new array, sort orders that array in
\* place and returns it. The outcome is the array passed in as it is after
\* the call, the array returned, and whether the two are one array.
sortByDate(txs, order) ==
    LET copy == txs
    IN [transactions |-> txs,
        returned |-> sortedByDate(copy, OrderOrDefault(order)),
        sameArray |-> FALSE]

\* sortByAmount, likewise
sortByAmount(txs, order) ==
    LET copy == txs
    IN [transactions |-> txs,
        returned |-> sortedByAmount(copy, OrderOrDefault(order)),
        sameArray |-> FALSE]

SortDates == {DateAt(14, 0), DateAt(19, 0)}
SortAmounts == {100, -100, 30}
SortDescription == <<"x">>
MaxSortTx == 3

InitSort ==
    /\ transactions \in TransactionSeqs(SortDates, {SortDescription}, SortAmounts,
                                        {Some(1)}, MaxSortTx)
    /\ categories = <<>>
    /\ args \in [order : {"asc", "desc", Undefined}]
    /\ call \in {"sortByDate", "sortByAmount"}
    /\ result = NoResult
    /\ CsvIdle

SortByDate ==
    /\ call = "sortByDate"
    /\ LET outcome == sortByDate(transactions, args.order)
       IN /\ transactions' = outcome.transactions
          /\ result' = [sorted |-> outcome.returned, sameArray |-> outcome.sameArray]
    /\ call' = "done"
    /\ UNCHANGED <<categories, args>>
    /\ UNCHANGED csvVars

SortByAmount ==
    /\ call = "sortByAmount"
    /\ LET outcome == sortByAmount(transactions, args.order)
       IN /\ transactions' = outcome.transactions
          /\ result' = [sorted |-> outcome.returned, sameArray |-> outcome.sameArray]
    /\ call' = "done"
    /\ UNCHANGED <<categories, args>>
    /\ UNCHANGED csvVars

NextSort == SortByDate \/ SortByAmount

SpecSort == InitSort /\ [][NextSort]_vars

SortDone == call = "done" /\ result # NoResult

----------------------------------------------------------------------------
(* Claims about sortByDate and sortByAmount *)

\* a and b hold the same elements with the same multiplicities.
IsPermutation(a, b) ==
    /\ Len(a) = Len(b)
    /\ \A x \in Range(a) \cup Range(b) :
          Cardinality({i \in 1..Len(a) : a[i] = x})
              = Cardinality({i \in 1..Len(b) : b[i] = x})

\* C15: a call of sortByDate or sortByAmount leaves its input array as it
\* was, element for element, and returns another array that is a
\* permutation of the input.
C15_SortLeavesInput ==
    [][(call \in {"sortByDate", "sortByAmount"}) =>
          (/\ transactions' = transactions
           /\ ~result'.sameArray
           /\ IsPermutation(result'.sorted, transactions))]_vars

\* C15 witness: a sort of three transactions has returned them in another
\* order than the input's.
C15_Witness ==
    /\ SortDone
    /\ Len(transactions) = 3
    /\ result.sorted # transactions
    /\ result.sorted[1] = transactions[3]

----------------------------------------------------------------------------
(* Transaction filters: category and amount filters *)

\* filterByCategory: t.categoryId === categoryId
filterByCategory(txs, categoryId) ==
    LET keep(t) == t.categoryId = categoryId
    IN SelectSeq(txs, keep)

\* filterByCategories reading a null categoryId as the id 0, on both sides.
filterByCategories_NullAsZero(txs, categoryIds) ==
    LET keep(t) == \E i \in 1..Len(categoryIds) :
                      Coalesce(categoryIds[i], 0) = Coalesce(t.categoryId, 0)
    IN SelectSeq(txs, keep)

\* filterByCategories: categoryIds.includes(t.categoryId)
filterByCategories(txs, categoryIds) ==
    LET keep(t) == \E i \in 1..Len(categoryIds) : categoryIds[i] = t.categoryId
    IN SelectSeq(txs, keep)

\* filterByMinAmount comparing the signed amount.
filterByMinAmount_Signed(txs, minAmount) ==
    LET keep(t) == t.amount >= minAmount
    IN SelectSeq(txs, keep)

\* filterByMinAmount: Math.abs(t.amount) >= minAmount
filterByMinAmount(txs, minAmount) ==
    LET keep(t) == Abs(t.amount) >= minAmount
    IN SelectSeq(txs, keep)

\* filterByMaxAmount: Math.abs(t.amount) <= maxAmount
filterByMaxAmount(txs, maxAmount) ==
    LET keep(t) == Abs(t.amount) <= maxAmount
    IN SelectSeq(txs, keep)

\* filterByAmountRange: a filter of its own with both comparisons
filterByAmountRange(txs, minAmount, maxAmount) ==
    LET keep(t) == LET absAmount == Abs(t.amount)
                   IN absAmount >= minAmount /\ absAmount <= maxAmount
    IN SelectSeq(txs, keep)

----------------------------------------------------------------------------
(* Transaction filters: composeFilters *)

\* A stage is a closure over one of the filters, as the callers write it:
\* (txs) => sortByDate(txs, order), (txs) => filterByMinAmount(txs, 100), ...
ApplyStage(filterFn, txs) ==
    CASE filterFn.fn = "sortByDate" -> sortByDate(txs, filterFn.arg).returned
      [] filterFn.fn = "sortByAmount" -> sortByAmount(txs, filterFn.arg).returned
      [] filterFn.fn = "filterByMinAmount" -> filterByMinAmount(txs, filterFn.arg)
      [] filterFn.fn = "filterByCategory" -> filterByCategory(txs, filterFn.arg)

RECURSIVE reduceRight(_, _)
\* Array.prototype.reduceRight with the callback of composeFilters
reduceRight(filters, acc) ==
    IF filters = <<>> THEN acc
    ELSE reduceRight(SubSeq(filters, 1, Len(filters) - 1),
                     ApplyStage(filters[Len(filters)], acc))

RECURSIVE reduce(_, _)
\* Array.prototype.reduce with the callback (acc, filterFn) => filterFn(acc)
reduce(filters, acc) ==
    IF filters = <<>> THEN acc
    ELSE reduce(Tail(filters), ApplyStage(Head(filters), acc))

\* composeFilters folding the stages from the last to the first.
composeFilters_RightToLeft(txs, filters) == reduceRight(filters, txs)

\* composeFilters
composeFilters(txs, filters) == reduce(filters, txs)

ComposeDates == {DateAt(14, 0), DateAt(19, 0)}
ComposeAmounts == {150, -50}
ComposeCategoryIds == {Some(1), Null}
ComposeStages ==
    { [fn |-> "sortByDate", arg |-> "asc"],
      [fn |-> "sortByDate", arg |-> Undefined],
      [fn |-> "sortByAmount", arg |-> "desc"],
      [fn |-> "filterByMinAmount", arg |-> 100],
      [fn |-> "filterByCategory", arg |-> Some(1)] }
MaxComposeTx == 2
MaxStages == 2

InitCompose ==
    /\ transactions \in TransactionSeqs(ComposeDates, {SortDescription}, ComposeAmounts,
                                        ComposeCategoryIds, MaxComposeTx)
    /\ categories = <<>>
    /\ args \in [filters : SeqsUpTo(ComposeStages, MaxStages)]
    /\ call = "composeFilters"
    /\ result = NoResult
    /\ CsvIdle

ComposeFilters ==
    /\ call = "composeFilters"
    /\ result' = [filtered |-> composeFilters(transactions, args.filters)]
    /\ call' = "done"
    /\ UNCHANGED <<transactions, categories, args>>
    /\ UNCHANGED csvVars

NextCompose == ComposeFilters

SpecCompose == InitCompose /\ [][NextCompose]_vars

ComposeDone == call = "done" /\ result # NoResult

----------------------------------------------------------------------------
(* Claims about composeFilters *)

RECURSIVE OutputOfStage(_)
\* What stage k hands on when each stage receives the output of the stage
\* before it and the first stage the transactions; stage 0 is the input.
OutputOfStage(k) ==
    IF k = 0 THEN transactions
    ELSE ApplyStage(args.filters[k], OutputOfStage(k - 1))

\* C16: composeFilters is the left-to-right reduction of its stages: with
\* no stage it returns the transactions as they are, with stages [f, g] it
\* returns g(f(transactions)), and in general the output of the last stage,
\* each stage receiving the output of the stage before it.
C16_LeftToRight ==
    ComposeDone =>
        LET filters == args.filters
        IN /\ filters = <<>> => result.filtered = transactions
           /\ Len(filters) = 2 =>
                 result.filtered
                     = ApplyStage(filters[2], ApplyStage(filters[1], transactions))
           /\ result.filtered = OutputOfStage(Len(filters))

\* C16 witness: two stages whose order matters have been composed: the
\* result is g(f(transactions)) and differs from f(g(transactions)).
C16_Witness ==
    /\ ComposeDone
    /\ Len(args.filters) = 2
    /\ result.filtered
           # ApplyStage(args.filters[1], ApplyStage(args.filters[2], transactions))
    /\ Len(result.filtered) = 2

----------------------------------------------------------------------------
(* Transaction filters: searchByDescription *)

UpperCase == << "A", "B", "C", "D", "E", "F", "G", "H", "I", "J", "K", "L", "M",
                "N", "O", "P", "Q", "R", "S", "T", "U", "V", "W", "X", "Y", "Z" >>
LowerCase == << "a", "b", "c", "d", "e", "f", "g", "h", "i", "j", "k", "l", "m",
                "n", "o", "p", "q", "r", "s", "t", "u", "v", "w", "x", "y", "z" >>

\* String.prototype.toLowerCase on the unaccented letters
toLowerCase(s) ==
    [i \in 1..Len(s) |->
        IF \E k \in 1..Len(UpperCase) : UpperCase[k] = s[i]
        THEN LowerCase[CHOOSE k \in 1..Len(UpperCase) : UpperCase[k] = s[i]]
        ELSE s[i]]

\* String.prototype.includes
includes(s, sub) ==
    \E i \in 0..(Len(s) - Len(sub)) : SubSeq(s, i + 1, i + Len(sub)) = sub

\* searchByDescription comparing the description as it is written.
searchByDescription_CaseSensitive(txs, searchTerm) ==
    LET normalizedSearch == Trim(toLowerCase(searchTerm))
        keep(t) == includes(t.description, normalizedSearch)
    IN IF normalizedSearch = <<>> THEN txs ELSE SelectSeq(txs, keep)

\* searchByDescription
searchByDescription(txs, searchTerm) ==
    LET normalizedSearch == Trim(toLowerCase(searchTerm))
        keep(t) == includes(toLowerCase(t.description), normalizedSearch)
    IN IF normalizedSearch = <<>> THEN txs ELSE SelectSeq(txs, keep)

SearchDescriptions ==
    { <<"G", "a">>, <<"g", "a">>, <<"a", "G">>, <<"a", " ", "g">> }
SearchTermChars == {"g", "A", " "}
MaxTermLen == 3
MaxSearchTx == 2

InitSearch ==
    /\ transactions \in TransactionSeqs({DateAt(14, 0)}, SearchDescriptions, {50},
                                        {Some(2)}, MaxSearchTx)
    /\ categories = <<>>
    /\ args \in [searchTerm : SeqsUpTo(SearchTermChars, MaxTermLen)]
    /\ call = "searchByDescription"
    /\ result = NoResult
    /\ CsvIdle

SearchByDescription ==
    /\ call = "searchByDescription"
    /\ result' = [found |-> searchByDescription(transactions, args.searchTerm)]
    /\ call' = "done"
    /\ UNCHANGED <<transactions, categories, args>>
    /\ UNCHANGED csvVars

NextSearch == SearchByDescription

SpecSearch == InitSearch /\ [][NextSearch]_vars

SearchDone == call = "done" /\ result # NoResult

----------------------------------------------------------------------------
(* Claims about searchByDescription *)

\* c and d are one character, or the two cases of one letter.
SameIgnoringCase(c, d) ==
    \/ c = d
    \/ \E k \in 1..Len(UpperCase) : {c, d} = {UpperCase[k], LowerCase[k]}

\* C17: for a term that is empty or all whitespace the result is the input,
\* every transaction in the same order; otherwise it is, in input order,
\* exactly the transactions whose description holds, at some position, the
\* term without its leading and trailing whitespace, characters compared
\* without regard to case.
C17_SearchByDescription ==
    SearchDone =>
        LET term == args.searchTerm
            inked == {i \in 1..Len(term) : ~IsSpace(term[i])}
            first == CHOOSE i \in inked : \A j \in inked : i <= j
            last == CHOOSE i \in inked : \A j \in inked : j <= i
            width == last - first + 1
            matches(t) ==
                \E at \in 0..(Len(t.description) - width) :
                    \A k \in 1..width :
                        SameIgnoringCase(t.description[at + k], term[first + k - 1])
        IN IF inked = {} THEN result.found = transactions
           ELSE result.found = SelectSeq(transactions, matches)

\* C17 witness: a term with leading whitespace and a lower-case g has found
\* the second of two transactions, whose description has the upper-case G,
\* and not the first.
C17_Witness ==
    /\ SearchDone
    /\ Len(transactions) = 2
    /\ Len(args.searchTerm) = 3
    /\ IsSpace(args.searchTerm[1])
    /\ args.searchTerm[2] = "g"
    /\ Len(result.found) = 1
    /\ result.found[1].id = 2
    /\ "G" \in Range(result.found[1].description)

----------------------------------------------------------------------------
(* Transaction filters: calls of filterByCategory and filterByCategories *)

FilterCategoryIds == {Null, Some(0), Some(1), Some(2)}
MaxCategoryTx == 3
MaxCategoryIds == 2

InitCategory ==
    /\ transactions \in TransactionSeqs({DateAt(14, 0)}, {SortDescription}, {50},
                                        FilterCategoryIds, MaxCategoryTx)
    /\ categories = <<>>
    /\ \/ /\ call = "filterByCategory"
          /\ args \in [categoryId : FilterCategoryIds]
       \/ /\ call = "filterByCategories"
          /\ args \in [categoryIds : SeqsUpTo(FilterCategoryIds, MaxCategoryIds)]
    /\ result = NoResult
    /\ CsvIdle

FilterByCategory ==
    /\ call = "filterByCategory"
    /\ result' = [filtered |-> filterByCategory(transactions, args.categoryId)]
    /\ call' = "done"
    /\ UNCHANGED <<transactions, categories, args>>
    /\ UNCHANGED csvVars

FilterByCategories ==
    /\ call = "filterByCategories"
    /\ result' = [filtered |-> filterByCategories(transactions, args.categoryIds)]
    /\ call' = "done"
    /\ UNCHANGED <<transactions, categories, args>>
    /\ UNCHANGED csvVars

NextCategory == FilterByCategory \/ FilterByCategories

SpecCategory == InitCategory /\ [][NextCategory]_vars

CategoryDone == call = "done" /\ result # NoResult

----------------------------------------------------------------------------
(* Claims about the category filters *)

\* kept is, in input order, exactly the transactions at the positions in
\* chosen (a transaction's id is its position in the input).
KeepsExactly(kept, chosen) ==
    /\ \A k \in 1..Len(kept) :
          /\ kept[k].id \in chosen
          /\ kept[k] = transactions[kept[k].id]
    /\ \A k \in 1..(Len(kept) - 1) : kept[k].id < kept[k + 1].id
    /\ chosen = {kept[k].id : k \in 1..Len(kept)}

\* C18: filterByCategories returns, in input order, exactly the
\* transactions whose categoryId is one of ids, a null among ids selecting
\* the transactions without category, and nothing when ids is empty;
\* filterByCategory with c returns what filterByCategories returns with
\* the one-element list [c], c null included.
C18_CategoryMembership ==
    CategoryDone =>
        IF "categoryIds" \in DOMAIN args
        THEN /\ KeepsExactly(result.filtered,
                    {i \in 1..Len(transactions) :
                        transactions[i].categoryId \in Range(args.categoryIds)})
             /\ args.categoryIds = <<>> => result.filtered = <<>>
        ELSE result.filtered = filterByCategories(transactions, <<args.categoryId>>)

\* C18 witness: filterByCategories with a list holding null and the id 1
\* has kept the uncategorized and the category-1 transaction of an input
\* that also holds a transaction of category 0, which it dropped.
C18_Witness ==
    /\ CategoryDone
    /\ "categoryIds" \in DOMAIN args
    /\ Range(args.categoryIds) = {Null, Some(1)}
    /\ Len(transactions) = 3
    /\ {transactions[i].categoryId : i \in 1..3} = {Null, Some(0), Some(1)}
    /\ Len(result.filtered) = 2
----------------------------------------------------------------------------
(* Transaction filters: calls of the amount filters *)

FilterAmounts == {-100, 50, 75, -30}
AmountBounds == {0, 30, 50, 75, 100}
MaxAmountTx == 3

InitAmount ==
    /\ transactions \in TransactionSeqs({DateAt(14, 0)}, {SortDescription}, FilterAmounts,
                                        {Some(1)}, MaxAmountTx)
    /\ categories = <<>>
    /\ \/ /\ call = "filterByMinAmount"
          /\ args \in [minAmount : AmountBounds]
       \/ /\ call = "filterByMaxAmount"
          /\ args \in [maxAmount : AmountBounds]
       \/ /\ call = "filterByAmountRange"
          /\ args \in [minAmount : AmountBounds, maxAmount : AmountBounds]
    /\ result = NoResult
    /\ CsvIdle

FilterByMinAmount ==
    /\ call = "filterByMinAmount"
    /\ result' = [filtered |-> filterByMinAmount(transactions, args.minAmount)]
    /\ call' = "done"
    /\ UNCHANGED <<transactions, categories, args>>
    /\ UNCHANGED csvVars

FilterByMaxAmount ==
    /\ call = "filterByMaxAmount"
    /\ result' = [filtered |-> filterByMaxAmount(transactions, args.maxAmount)]
    /\ call' = "done"
    /\ UNCHANGED <<transactions, categories, args>>
    /\ UNCHANGED csvVars

FilterByAmountRange ==
    /\ call = "filterByAmountRange"
    /\ result' = [filtered |->
                     filterByAmountRange(transactions, args.minAmount, args.maxAmount)]
    /\ call' = "done"
    /\ UNCHANGED <<transactions, categories, args>>
    /\ UNCHANGED csvVars

NextAmount == FilterByMinAmount \/ FilterByMaxAmount \/ FilterByAmountRange

SpecAmount == InitAmount /\ [][NextAmount]_vars

AmountDone == call = "done" /\ result # NoResult

----------------------------------------------------------------------------
(* Claims about the amount filters *)

\* C19: filterByMinAmount keeps exactly the transactions with
\* |amount| >= lo, filterByMaxAmount exactly those with |amount| <= hi,
\* both bounds included, and filterByAmountRange with lo and hi returns
\* what filterByMaxAmount with hi returns on the result of
\* filterByMinAmount with lo, which is nothing when lo > hi.
C19_AmountBounds ==
    AmountDone =>
        LET magnitude(i) == IF transactions[i].amount < 0
                            THEN 0 - transactions[i].amount
                            ELSE transactions[i].amount
        IN CASE DOMAIN args = {"minAmount"} ->
                  KeepsExactly(result.filtered,
                      {i \in 1..Len(transactions) : magnitude(i) >= args.minAmount})
             [] DOMAIN args = {"maxAmount"} ->
                  KeepsExactly(result.filtered,
                      {i \in 1..Len(transactions) : magnitude(i) <= args.maxAmount})
             [] DOMAIN args = {"minAmount", "maxAmount"} ->
                  /\ result.filtered
                        = filterByMaxAmount(
                              filterByMinAmount(transactions, args.minAmount),
                              args.maxAmount)
                  /\ args.minAmount > args.maxAmount => result.filtered = <<>>

\* C19 witness: filterByAmountRange has kept a negative amount whose
\* magnitude is the lower bound and an amount equal to the upper bound, and
\* dropped a third transaction.
C19_Witness ==
    /\ AmountDone
    /\ DOMAIN args = {"minAmount", "maxAmount"}
    /\ args.minAmount < args.maxAmount
    /\ Len(transactions) = 3
    /\ Len(result.filtered) = 2
    /\ \E k \in 1..2 : result.filtered[k].amount = 0 - args.minAmount
    /\ \E k \in 1..2 : result.filtered[k].amount = args.maxAmount

----------------------------------------------------------------------------
(* Transaction filters: filterByDateRange, filterLastNDays *)

\* filterByDateRange: Date objects compare by their time values
filterByDateRange(txs, startDate, endDate) ==
    LET keep(t) == LET transactionDate == t.date
                   IN transactionDate >= startDate /\ transactionDate <= endDate
    IN SelectSeq(txs, keep)

\* date.setDate(date.getDate() - days) on a copy of date: the same local
\* time of day, days calendar days earlier. The local days are taken to
\* have 24 hours each (a time zone without clock changes, such as UTC).
DaysEarlier(date, days) == date - days * MsPerDay

\* filterLastNDays without the comparison with the reference date.
filterLastNDays_NoUpperBound(txs, days, referenceDate) ==
    LET startDate == DaysEarlier(referenceDate, days)
        keep(t) == t.date >= startDate
    IN SelectSeq(txs, keep)

\* filterLastNDays: a filter of its own over the window it computes
filterLastNDays(txs, days, referenceDate) ==
    LET startDate == DaysEarlier(referenceDate, days)
        keep(t) == LET transactionDate == t.date
                   IN transactionDate >= startDate /\ transactionDate <= referenceDate
    IN SelectSeq(txs, keep)

\* Instants around the bounds, one millisecond apart where it matters.
TransactionDates ==
    { DateAt(12, 0), DateAt(12, 1), DateAt(14, 1),
      DateAt(15, 0), DateAt(15, 1), DateAt(15, 2) }
RangeBounds == {DateAt(12, 1), DateAt(14, 1), DateAt(15, 0), DateAt(15, 1)}
ReferenceDates == {DateAt(15, 0), DateAt(15, 1)}
DayCounts == {0, 1, 3}
MaxDateTx == 2

InitDate ==
    /\ transactions \in TransactionSeqs(TransactionDates, {SortDescription}, {50},
                                        {Some(1)}, MaxDateTx)
    /\ categories = <<>>
    /\ \/ /\ call = "filterByDateRange"
          /\ args \in [startDate : RangeBounds, endDate : RangeBounds]
       \/ /\ call = "filterLastNDays"
          /\ args \in [days : DayCounts, referenceDate : ReferenceDates]
    /\ result = NoResult
    /\ CsvIdle

FilterByDateRange ==
    /\ call = "filterByDateRange"
    /\ result' = [filtered |->
                     filterByDateRange(transactions, args.startDate, args.endDate)]
    /\ call' = "done"
    /\ UNCHANGED <<transactions, categories, args>>
    /\ UNCHANGED csvVars

FilterLastNDays ==
    /\ call = "filterLastNDays"
    /\ result' = [filtered |->
                     filterLastNDays(transactions, args.days, args.referenceDate)]
    /\ call' = "done"
    /\ UNCHANGED <<transactions, categories, args>>
    /\ UNCHANGED csvVars

NextDate == FilterByDateRange \/ FilterLastNDays

SpecDate == InitDate /\ [][NextDate]_vars

DateDone == call = "done" /\ result # NoResult

----------------------------------------------------------------------------
(* Claims about the date filters *)

----------------------------------------------------------------------------
(* Claims about the order of the row checks *)

\* The cells the mapping selects from the row at 0-based position i.
DateCell(i) == rows[i + 1][mapping.dateColumn + 1]
DescriptionCell(i) == rows[i + 1][mapping.descriptionColumn + 1]
AmountCell(i) == rows[i + 1][mapping.amountColumn + 1]

\* The reason the row at position i is reported with, "" when it is not
\* among the invalid rows.
ReportedError(i) ==
    LET at == {j \in 1..Len(invalid) : invalid[j].rowIndex = i}
    IN IF at = {} THEN "" ELSE invalid[CHOOSE j \in at : TRUE].error

\* The entry of valid that the row at position i produced, given that it
\* is not among the invalid rows.
ValidEntry(i) ==
    valid[i + 1 - Cardinality({j \in 1..Len(invalid) : invalid[j].rowIndex < i})]

\* C21: each row is reported with the reason of the first failing check in
\* the order mapping, date, description, amount: a row whose length is at
\* most the largest mapped index gets the mapping reason; otherwise an
\* unparseable date gets the date reason whatever the other cells hold;
\* otherwise a description empty after trimming gets the description
\* reason whatever the amount holds; otherwise a non-numeric amount gets
\* the amount reason; a row passing all four is valid, its description
\* trimmed.
C21_FirstFailingCheck ==
    CsvDone =>
        \A i \in 0..(Len(rows) - 1) :
            LET largest == CHOOSE c \in {mapping.dateColumn, mapping.descriptionColumn,
                                         mapping.amountColumn} :
                               /\ c >= mapping.dateColumn
                               /\ c >= mapping.descriptionColumn
                               /\ c >= mapping.amountColumn
            IN IF Len(rows[i + 1]) <= largest
               THEN ReportedError(i) = ErrMap
               ELSE IF parseDate(DateCell(i), envSlashDates) = NoDate
               THEN ReportedError(i) = ErrDate
               ELSE IF \A k \in 1..Len(DescriptionCell(i)) : IsSpace(DescriptionCell(i)[k])
               THEN ReportedError(i) = ErrDescription
               ELSE IF parseFloat(AmountCell(i)).nan
               THEN ReportedError(i) = ErrAmount
               ELSE /\ ReportedError(i) = ""
                    /\ ValidEntry(i).description = Trim(DescriptionCell(i))
                    /\ ValidEntry(i).description # <<>>
                    /\ ~IsSpace(Head(ValidEntry(i).description))
                    /\ ~IsSpace(ValidEntry(i).description[Len(ValidEntry(i).description)])

\* C21 witness: a finished batch holding a row with all three cells bad,
\* reported for its date, a row with a good date whose description is
\* blank and whose amount is not a number, reported for its description,
\* and a valid row whose description cell had spaces around it.
C21_Witness ==
    /\ CsvDone
    /\ Len(rows) = 3
    /\ rows[1] = <<CellBadDate, CellBlank, CellLetters>>
    /\ rows[2] = <<CellISO17, CellBlank, CellLetters>>
    /\ Len(rows[3]) = 3
    /\ mapping.descriptionColumn = 1
    /\ mapping.amountColumn = 2
    /\ DescriptionCell(2) = CellPadded
    /\ Len(valid) = 1
    /\ Len(invalid) = 2
    /\ invalid[1].error = ErrDate
    /\ invalid[2].error = ErrDescription

----------------------------------------------------------------------------
(* Claims about date cells *)

\* C22: a date cell of the form DD/MM/YYYY naming a day of the calendar is
\* accepted, and the transaction's date has day DD, month MM - 1 and year
\* YYYY, whatever the day (12 or less included) and whatever the
\* environment's own parser makes of the cell.
C22_DayMonthYear ==
    CsvDone =>
        \A i \in 0..(Len(rows) - 1) :
            LET row == rows[i + 1]
                mappable == /\ Len(row) > mapping.dateColumn
                            /\ Len(row) > mapping.descriptionColumn
                            /\ Len(row) > mapping.amountColumn
                cell == SlashMatch(Trim(DateCell(i)))
            IN (/\ mappable
                /\ cell.match
                /\ cell.g2 \in 1..12
                /\ cell.g1 \in 1..DaysInMonth(cell.g3, cell.g2 - 1)) =>
                   /\ ReportedError(i) # ErrDate
                   /\ ReportedError(i) = "" =>
                         ValidEntry(i).date
                             = [year |-> cell.g3, month |-> cell.g2 - 1, day |-> cell.g1]

----------------------------------------------------------------------------
(* Claims about amount cells *)

\* s is one signed decimal number and nothing else: an optional sign,
\* digits with an optional decimal point among them, at least one digit.
IsSignedDecimal(s) ==
    LET from == IF s # <<>> /\ s[1] \in {"+", "-"} THEN 2 ELSE 1
        body == SubSeq(s, from, Len(s))
        dots == {k \in 1..Len(body) : body[k] = "."}
    IN /\ \A k \in 1..Len(body) : body[k] \in Digits \cup {"."}
       /\ Cardinality(dots) <= 1
       /\ \E k \in 1..Len(body) : body[k] \in Digits

\* C23: a row that passes the mapping, date and description checks and
\* whose amount cell holds any character that is not part of one signed
\* decimal number is reported with the amount reason, and the amount of a
\* valid transaction is the value of its whole amount cell.
C23_WholeAmountCell ==
    CsvDone =>
        \A i \in 0..(Len(rows) - 1) :
            LET row == rows[i + 1]
                mappable == /\ Len(row) > mapping.dateColumn
                            /\ Len(row) > mapping.descriptionColumn
                            /\ Len(row) > mapping.amountColumn
            IN /\ (/\ mappable
                   /\ parseDate(DateCell(i), envSlashDates) # NoDate
                   /\ Trim(DescriptionCell(i)) # <<>>
                   /\ ~IsSignedDecimal(Trim(AmountCell(i)))) =>
                      ReportedError(i) = ErrAmount
               /\ (mappable /\ ReportedError(i) = "") =>
                      IsSignedDecimal(Trim(AmountCell(i)))

----------------------------------------------------------------------------
(* Claims about the order sortByDate and sortByAmount produce *)

\* s is ordered by key in the given direction, and elements with equal keys
\* stand in the order of their positions in the input (their ids).
OrderedStable(s, key, order) ==
    \A i \in 1..Len(s) : \A j \in (i + 1)..Len(s) :
        /\ IF order = "asc" THEN key[i] <= key[j] ELSE key[i] >= key[j]
        /\ key[i] = key[j] => s[i].id < s[j].id

\* C24: sortByDate and sortByAmount order by date, resp. |amount|,
\* non-increasing when no order is given or 'desc', non-decreasing with
\* 'asc', and in either direction transactions with equal keys keep their
\* relative order from the input.
C24_StableOrder ==
    [][/\ (call = "sortByDate") =>
              OrderedStable(result'.sorted,
                            [i \in 1..Len(result'.sorted) |-> result'.sorted[i].date],
                            IF args.order = "asc" THEN "asc" ELSE "desc")
       /\ (call = "sortByAmount") =>
              OrderedStable(result'.sorted,
                            [i \in 1..Len(result'.sorted) |->
                                IF result'.sorted[i].amount < 0
                                THEN 0 - result'.sorted[i].amount
                                ELSE result'.sorted[i].amount],
                            IF args.order = "asc" THEN "asc" ELSE "desc")]_vars

\* C24 witness: with no order given, three transactions of amounts 30, 100
\* and -100, the first the most recent, have been returned by magnitude:
\* 100 before -100 as in the input, 30 last.
C24_Witness ==
    /\ SortDone
    /\ args.order = Undefined
    /\ Len(transactions) = 3
    /\ transactions[1].amount = 30
    /\ transactions[2].amount = 100
    /\ transactions[3].amount = -100
    /\ transactions[1].date > transactions[2].date
    /\ transactions[2].date = transactions[3].date
    /\ result.sorted = <<transactions[2], transactions[3], transactions[1]>>

----------------------------------------------------------------------------
(* Claims about batches parsed in parts *)

RECURSIVE parseCSVToTransactions(_, _, _)
\* parseCSVToTransactions on a batch of its own: rows.forEach from two
\* empty arrays.
parseCSVToTransactions(batch, m, slash) ==
    IF batch = <<>> THEN [valid |-> <<>>, invalid |-> <<>>]
    ELSE rowCallback(parseCSVToTransactions(SubSeq(batch, 1, Len(batch) - 1), m, slash),
                     batch[Len(batch)], Len(batch) - 1, m, slash)

\* C25: for every way of cutting the batch into A followed by B, the valid
\* transactions are those of A followed by those of B, and the invalid rows
\* are those of A followed by those of B with each rowIndex of B's raised
\* by the length of A.
C25_RowsIndependent ==
    CsvDone =>
        \A cut \in 0..Len(rows) :
            LET A == parseCSVToTransactions(SubSeq(rows, 1, cut), mapping, envSlashDates)
                B == parseCSVToTransactions(SubSeq(rows, cut + 1, Len(rows)),
                                            mapping, envSlashDates)
            IN /\ valid = A.valid \o B.valid
               /\ invalid = A.invalid \o
                     [j \in 1..Len(B.invalid) |->
                         [B.invalid[j] EXCEPT !.rowIndex = @ + cut]]

\* C25 witness: a finished batch of three rows, the middle one refused,
\* whose first and last rows are valid as they are when parsed alone.
C25_Witness ==
    /\ CsvDone
    /\ Len(rows) = 3
    /\ Len(valid) = 2
    /\ Len(invalid) = 1
    /\ invalid[1].rowIndex = 1
    /\ parseCSVToTransactions(<<rows[3]>>, mapping, envSlashDates).valid = <<valid[2]>>

----------------------------------------------------------------------------
(* Claims about what the Pareto analysis conserves *)

\* C26: every group key of the input occurs exactly once in categories;
\* the transactionCount values sum to the number of transactions; the
\* totalAmount values sum to totalSpending; totalSpending is the sum of
\* |amount| over the transactions; paretoThreshold is 0.8 * totalSpending.
C26_Conservation ==
    ParetoDone =>
        LET cats == result.categories
            n == Len(transactions)
            magnitude(i) == IF transactions[i].amount < 0
                            THEN 0 - transactions[i].amount
                            ELSE transactions[i].amount
        IN /\ \A i \in 1..n :
                 Cardinality({c \in 1..Len(cats) :
                                 cats[c].categoryId = GroupKey(transactions[i])}) = 1
           /\ \A c \in 1..Len(cats) :
                 \E i \in 1..n : GroupKey(transactions[i]) = cats[c].categoryId
           /\ SumOver([c \in 1..Len(cats) |-> cats[c].transactionCount], 1..Len(cats)) = n
           /\ SumOver([c \in 1..Len(cats) |-> cats[c].totalAmount], 1..Len(cats))
                 = result.totalSpending
           /\ result.totalSpending = SumOver([i \in 1..n |-> magnitude(i)], 1..n)
           /\ REq(result.paretoThreshold, Rat(4 * result.totalSpending, 5))

\* C26 witness: three transactions of both signs in two groups, analysed:
\* two categories, counts 2 and 1, spending 9.
C26_Witness ==
    /\ ParetoDone
    /\ Len(transactions) = 3
    /\ \E i \in 1..3 : transactions[i].amount < 0
    /\ \E i \in 1..3 : transactions[i].amount > 0
    /\ Len(result.categories) = 2
    /\ result.categories[1].transactionCount = 2
    /\ result.totalSpending = 9

----------------------------------------------------------------------------
(* Claims about what findOutliers cannot flag *)

\* a is b with some elements left out (ids are positions in the input, so
\* they tell the elements apart and give their order).
IsSubsequence(a, b) ==
    /\ \A k \in 1..Len(a) : \E j \in 1..Len(b) : b[j] = a[k]
    /\ \A k \in 1..(Len(a) - 1) : a[k].id < a[k + 1].id

\* C27: for n >= 4 transactions and a multiplier k >= 0, no transaction
\* whose |amount| is at most Q3, the magnitude at sorted position
\* floor(0.75 * n), is returned, so at most n - floor(0.75 * n) - 1 are;
\* four transactions never yield an outlier; and every transaction
\* returned for k is returned for each smaller multiplier too.
C27_NothingUpToQ3 ==
    (OutliersDone /\ Len(transactions) >= 4) =>
        LET n == Len(transactions)
            m == [i \in 1..n |-> IF transactions[i].amount < 0
                                 THEN 0 - transactions[i].amount
                                 ELSE transactions[i].amount]
            Q3 == AtSortedPosition(m, (3 * n) \div 4)
            out == result.outliers
        IN /\ \A j \in 1..Len(out) : m[out[j].id] > Q3
           /\ Len(out) <= n - ((3 * n) \div 4) - 1
           /\ n = 4 => out = <<>>
           /\ \A lower \in Thresholds :
                 RLe(lower, args.threshold) =>
                    IsSubsequence(out, findOutliers(transactions, lower))
           /\ IsSubsequence(out, transactions)

\* C27 witness: with multiplier 0, four transactions of magnitudes 1, 1, 1
\* and 9 yield no outlier: Q3 is the largest magnitude itself.
C27_Witness ==
    /\ OutliersDone
    /\ Len(transactions) = 4
    /\ args.threshold = RInt(0)
    /\ \E i \in 1..4 :
          /\ Abs(transactions[i].amount) = 9
          /\ \A j \in (1..4) \ {i} : Abs(transactions[j].amount) = 1
    /\ result.outliers = <<>>

----------------------------------------------------------------------------
(* CSV import screen: the useCSVImport hook and the CSVImport component *)

ErrEmptyFile == "Le fichier CSV est vide"
ErrRead == "Erreur lors de la lecture du fichier"
ErrNoMapping == "Veuillez définir le mapping des colonnes"
ErrNothingToImport == "Aucune transaction valide à importer"
ErrImport == "Erreur lors de l'importation"

\* detectColumnHeaders
detectColumnHeaders(firstRow) == [i \in 1..Len(firstRow) |-> Trim(firstRow[i])]

\* What Papa.parse makes of each file (results.data): a header row and two
\* rows, one of them valid; a header row and one row; nothing at all.
Files == {"a.csv", "b.csv", "empty.csv"}
FileData(f) ==
    CASE f = "a.csv" -> << << <<"D">>, <<" ", "L">>, <<"A">> >>,
                           <<CellISO15, CellGroceries, CellAmount>>,
                           <<CellBadDate, CellGroceries, CellAmount>> >>
      [] f = "b.csv" -> << << <<"d">>, <<"l">>, <<"a">> >>,
                           <<CellISO17, CellPadded, CellNegative>> >>
      [] f = "empty.csv" -> <<>>

\* The mappings the form can submit: one that fits the files and one that
\* points the date at a fourth column, which no row has.
HookMappings ==
    { [dateColumn |-> 0, descriptionColumn |-> 1, amountColumn |-> 2],
      [dateColumn |-> 3, descriptionColumn |-> 1, amountColumn |-> 2] }

MaxRequests == 1

\* CSVImport has just been mounted by TransactionsPage.
InitImport ==
    /\ state = initialState
    /\ parses = {}
    /\ imports = {}
    /\ requests = <<>>
    /\ showImport = TRUE
    /\ onCompleteCalls = 0
    /\ importsSucceeded = 0
    /\ rows = <<>>
    /\ mapping = [dateColumn |-> 0, descriptionColumn |-> 1, amountColumn |-> 2]
    /\ envSlashDates = FALSE
    /\ index = 0
    /\ valid = <<>>
    /\ invalid = <<>>
    /\ AnaIdle

hookRest == <<rows, mapping, envSlashDates, index, valid, invalid>>

\* selectFile: the state is reset around the file and Papa.parse starts.
SelectFile(f) ==
    /\ showImport
    /\ f \notin parses
    /\ state' = [initialState EXCEPT !.file = f, !.step = "select-file"]
    /\ parses' = parses \cup {f}
    /\ UNCHANGED <<imports, requests, showImport, onCompleteCalls, importsSucceeded>>
    /\ UNCHANGED hookRest
    /\ UNCHANGED anaVars

\* The complete callback of Papa.parse for file f.
ParseComplete(f) ==
    /\ f \in parses
    /\ parses' = parses \ {f}
    /\ LET data == FileData(f)
       IN IF Len(data) = 0
          THEN state' = [state EXCEPT !.error = ErrEmptyFile, !.step = "select-file"]
          ELSE state' = [state EXCEPT !.headers = detectColumnHeaders(Head(data)),
                                      !.rawData = Tail(data),
                                      !.step = "map-columns",
                                      !.error = NoError]
    /\ UNCHANGED <<imports, requests, showImport, onCompleteCalls, importsSucceeded>>
    /\ UNCHANGED hookRest
    /\ UNCHANGED anaVars

\* The error callback of Papa.parse for file f.
ParseError(f) ==
    /\ f \in parses
    /\ parses' = parses \ {f}
    /\ state' = [state EXCEPT !.error = ErrRead, !.step = "select-file"]
    /\ UNCHANGED <<imports, requests, showImport, onCompleteCalls, importsSucceeded>>
    /\ UNCHANGED hookRest
    /\ UNCHANGED anaVars

\* setColumnMapping
SetColumnMapping(m) ==
    /\ showImport
    /\ state' = [state EXCEPT !.columnMapping = m]
    /\ UNCHANGED <<parses, imports, requests, showImport, onCompleteCalls,
                   importsSucceeded>>
    /\ UNCHANGED hookRest
    /\ UNCHANGED anaVars

\* parseData
ParseData ==
    /\ showImport
    /\ IF state.columnMapping = NoMapping
       THEN state' = [state EXCEPT !.error = ErrNoMapping]
       ELSE state' = [state EXCEPT
                         !.parseResult = parseCSVToTransactions(
                                             state.rawData, state.columnMapping,
                                             envSlashDates),
                         !.step = "preview",
                         !.error = NoError]
    /\ UNCHANGED <<parses, imports, requests, showImport, onCompleteCalls,
                   importsSucceeded>>
    /\ UNCHANGED hookRest
    /\ UNCHANGED anaVars

\* Whether confirmImport finds something to import in the parseResult of
\* the render it was created in.
NothingToImport(st) ==
    st.parseResult = NoParseResult \/ st.parseResult.valid = <<>>

\* confirmImport up to its first await, called from the render showing st;
\* byHandler tells a call made by handleConfirmImport from a call of the
\* hook's action by other code.  With nothing to import the error is thrown
\* and caught before anything is awaited.
ConfirmImportCall(byHandler) ==
    LET thisCall == [handler |-> byHandler, step |-> state.step, status |-> "fetching"]
    IN IF NothingToImport(state)
       THEN /\ state' = [state EXCEPT !.error = ErrNothingToImport, !.step = "preview"]
            /\ requests' = requests
            /\ imports' = IF byHandler
                          THEN imports \cup {[thisCall EXCEPT !.status = "returned"]}
                          ELSE imports
       ELSE /\ Len(requests) < MaxRequests
            /\ state' = [state EXCEPT !.step = "importing"]
            /\ requests' = Append(requests, [transactions |-> state.parseResult.valid])
            /\ imports' = imports \cup {thisCall}

\* confirmImport called on the hook's actions
ConfirmImport ==
    /\ showImport
    /\ ConfirmImportCall(FALSE)
    /\ UNCHANGED <<parses, showImport, onCompleteCalls, importsSucceeded>>
    /\ UNCHANGED hookRest
    /\ UNCHANGED anaVars

\* handleConfirmImport: a click on the import button, which the preview
\* shows and which is enabled when there are valid transactions.
HandleConfirmImport ==
    /\ showImport
    /\ state.step = "preview"
    /\ state.parseResult # NoParseResult
    /\ state.parseResult.valid # <<>>
    /\ ConfirmImportCall(TRUE)
    /\ UNCHANGED <<parses, showImport, onCompleteCalls, importsSucceeded>>
    /\ UNCHANGED hookRest
    /\ UNCHANGED anaVars

\* A confirmImport call is over: one made by the handler hands over to the
\* handler's continuation, any other is forgotten.
Returned(i) ==
    IF i.handler THEN (imports \ {i}) \cup {[i EXCEPT !.status = "returned"]}
    ELSE imports \ {i}

\* The import request of call i is answered with an OK status.
ImportSucceeds(i) ==
    /\ i \in imports
    /\ i.status = "fetching"
    /\ state' = [state EXCEPT !.step = "complete", !.error = NoError]
    /\ imports' = Returned(i)
    /\ importsSucceeded' = IF i.handler THEN importsSucceeded + 1 ELSE importsSucceeded
    /\ UNCHANGED <<parses, requests, showImport, onCompleteCalls>>
    /\ UNCHANGED hookRest
    /\ UNCHANGED anaVars

\* The import request of call i fails or is answered with an error status.
ImportFails(i) ==
    /\ i \in imports
    /\ i.status = "fetching"
    /\ state' = [state EXCEPT !.error = ErrImport, !.step = "preview"]
    /\ imports' = Returned(i)
    /\ UNCHANGED <<parses, requests, showImport, onCompleteCalls, importsSucceeded>>
    /\ UNCHANGED hookRest
    /\ UNCHANGED anaVars

\* handleConfirmImport after its await: state is the state of the render
\* the click happened in.  onComplete is handleImportComplete of the page.
HandlerResumes(i) ==
    /\ i \in imports
    /\ i.handler
    /\ i.status = "returned"
    /\ imports' = imports \ {i}
    /\ IF i.step = "complete"
       THEN /\ onCompleteCalls' = onCompleteCalls + 1
            /\ showImport' = FALSE
       ELSE UNCHANGED <<onCompleteCalls, showImport>>
    /\ UNCHANGED <<state, parses, requests, importsSucceeded>>
    /\ UNCHANGED hookRest
    /\ UNCHANGED anaVars

\* reset
Reset ==
    /\ showImport
    /\ state' = initialState
    /\ UNCHANGED <<parses, imports, requests, showImport, onCompleteCalls,
                   importsSucceeded>>
    /\ UNCHANGED hookRest
    /\ UNCHANGED anaVars

NextImport ==
    \/ \E f \in Files : SelectFile(f)
    \/ \E f \in Files : ParseComplete(f)
    \/ \E f \in Files : ParseError(f)
    \/ \E m \in HookMappings : SetColumnMapping(m)
    \/ ParseData
    \/ ConfirmImport
    \/ HandleConfirmImport
    \/ \E i \in imports : ImportSucceeds(i)
    \/ \E i \in imports : ImportFails(i)
    \/ \E i \in imports : HandlerResumes(i)
    \/ Reset

SpecImport == InitImport /\ [][NextImport]_vars

\* Every answer arrives and every continuation runs.
SpecImportLive ==
    /\ SpecImport
    /\ WF_vars(\E i \in imports : ImportSucceeds(i) \/ ImportFails(i))
    /\ WF_vars(\E i \in imports : HandlerResumes(i))

----------------------------------------------------------------------------
(* Claims about the import screen *)

\* C28: whenever an import confirmed on the screen succeeds (the request is
\* answered OK and step becomes 'complete'), the onComplete callback is
\* eventually invoked, once for that import and never without one.
C28_OnCompleteInvoked ==
    /\ [](onCompleteCalls <= importsSucceeded)
    /\ \A k \in 1..MaxRequests :
          (importsSucceeded = k) ~> (onCompleteCalls = k)

\* The file whose rows and headers the state holds, when it holds any.
HoldsDataOf(f) ==
    /\ FileData(f) # <<>>
    /\ state.headers = detectColumnHeaders(Head(FileData(f)))
    /\ state.rawData = Tail(FileData(f))

\* C29: the headers and rawData in the state always come from the file
\* selected last: they are empty, or those of state.file; and a completion
\* or error of a parse started before a later selectFile or reset changes
\* none of headers, rawData, error and step.
C29_LatestFileOnly ==
    /\ [](\/ state.headers = <<>> /\ state.rawData = <<>>
          \/ state.file # NoFile /\ HoldsDataOf(state.file))
    /\ [][\A f \in Files :
             ((ParseComplete(f) \/ ParseError(f)) /\ f # state.file) =>
                 (/\ state'.headers = state.headers
                  /\ state'.rawData = state.rawData
                  /\ state'.error = state.error
                  /\ state'.step = state.step)]_vars

\* C30: every state with step 'preview' or 'complete' has a parseResult;
\* every state with step 'complete' comes after an import request with at
\* least one valid transaction; and a confirmImport call that finds no
\* parseResult or no valid transaction sends no request and leaves step
\* 'preview' with an error message.
C30_StepsHaveParseResult ==
    /\ [](state.step \in {"preview", "complete"} => state.parseResult # NoParseResult)
    /\ [](state.step = "complete" =>
             \E r \in 1..Len(requests) : requests[r].transactions # <<>>)
    /\ [][(ConfirmImport /\ NothingToImport(state)) =>
             (/\ requests' = requests
              /\ state'.step = "preview"
              /\ state'.error # NoError)]_vars

====
